---------------------------- MODULE Spec2Model ----------------------------
(***************************************************************************)
(* daily-story: the batch-generation and caching workflow.                 *)
(*                                                                         *)
(* The model follows src/src/storyService.ts (StoryGenerationService) and  *)
(* the /generate-stories and /:language/:level routes of the index.ts      *)
(* revision kept as src/unnamed/part_000.  Strings are sequences of        *)
(* one-character strings, so that formatting (padStart, toLowerCase,       *)
(* template literals), parsing (split, substring, parseInt) and path       *)
(* building are computed as the code computes them.                        *)
(***************************************************************************)
EXTENDS Integers, Sequences, FiniteSets, TLC

(***************************************************************************)
(* Bounds of the model.                                                    *)
(***************************************************************************)
\* provider batches that may exist over a run
MaxBatches == 3
\* invocations of GET /generate-stories over a run
MaxInvocations == 3
\* midnights that may pass over a run
MaxTicks == 1
\* outcomes of the batch a drain-only run starts with
MaxOutcomes == 3

(***************************************************************************)
(* Strings.                                                                *)
(***************************************************************************)
UpperChars == <<"A","B","C","D","E","F","G","H","I","J","K","L","M",
                "N","O","P","Q","R","S","T","U","V","W","X","Y","Z">>
LowerChars == <<"a","b","c","d","e","f","g","h","i","j","k","l","m",
                "n","o","p","q","r","s","t","u","v","w","x","y","z">>
DigitChars == <<"0","1","2","3","4","5","6","7","8","9">>

\* String.prototype.toLowerCase, one character
LowerChar(c) ==
    IF \E i \in 1..26 : UpperChars[i] = c
    THEN LowerChars[CHOOSE i \in 1..26 : UpperChars[i] = c]
    ELSE c

\* String.prototype.toUpperCase, one character
UpperChar(c) ==
    IF \E i \in 1..26 : LowerChars[i] = c
    THEN UpperChars[CHOOSE i \in 1..26 : LowerChars[i] = c]
    ELSE c

toLowerCase(s) == [i \in 1..Len(s) |-> LowerChar(s[i])]

toUpperCase(s) == [i \in 1..Len(s) |-> UpperChar(s[i])]

\* NaN: the value of parseInt on a string with no leading digit, and of
\* the fields of an Invalid Date (a number no date arithmetic here reaches)
NaN == -999999

IsDigit(c) == \E i \in 1..10 : DigitChars[i] = c

DigitValue(c) == (CHOOSE i \in 1..10 : DigitChars[i] = c) - 1

RECURSIVE NatToString(_)
\* Number.prototype.toString of a non-negative integer
NatToString(n) ==
    IF n < 10 THEN <<DigitChars[n + 1]>>
    ELSE NatToString(n \div 10) \o <<DigitChars[(n % 10) + 1]>>

\* Number.prototype.toString: NaN prints as "NaN"
toString(n) == IF n = NaN THEN <<"N","a","N">> ELSE NatToString(n)

\* String.prototype.padStart(2, '0')
padStart2(s) == IF Len(s) < 2 THEN <<"0">> \o s ELSE s

\* String.prototype.substring(from, to), zero-based, end exclusive
substring(s, from, to) ==
    LET hi == IF to > Len(s) THEN Len(s) ELSE to
    IN  IF from >= hi THEN <<>> ELSE SubSeq(s, from + 1, hi)

RECURSIVE LeadingDigits(_)
LeadingDigits(s) ==
    IF s = <<>> \/ ~IsDigit(Head(s)) THEN <<>>
    ELSE <<Head(s)>> \o LeadingDigits(Tail(s))

RECURSIVE DigitsValue(_, _)
DigitsValue(s, acc) ==
    IF s = <<>> THEN acc
    ELSE DigitsValue(Tail(s), acc * 10 + DigitValue(Head(s)))

\* parseInt(s): the value of the leading decimal digits, NaN when none
parseInt(s) ==
    LET ds == LeadingDigits(s)
    IN  IF ds = <<>> THEN NaN ELSE DigitsValue(ds, 0)

RECURSIVE SplitFrom(_, _, _)
SplitFrom(s, sep, cur) ==
    IF s = <<>> THEN <<cur>>
    ELSE IF Head(s) = sep THEN <<cur>> \o SplitFrom(Tail(s), sep, <<>>)
    ELSE SplitFrom(Tail(s), sep, Append(cur, Head(s)))

\* String.prototype.split('-')
split(s, sep) == SplitFrom(s, sep, <<>>)

\* n - 1 in JavaScript arithmetic: NaN - 1 is NaN
MinusOne(n) == IF n = NaN THEN NaN ELSE n - 1

\* parts[i] of a zero-based array access: undefined is the empty string
\* here (both are falsy, which is all the code tests)
At(parts, i) == IF i + 1 <= Len(parts) THEN parts[i + 1] ELSE <<>>


(***************************************************************************)
(* Dates: the fields a JavaScript Date shows through getFullYear,          *)
(* getMonth (zero-based) and getDate.                                      *)
(***************************************************************************)
InvalidDate == [year |-> NaN, month |-> NaN, date |-> NaN]

IsLeap(y) == (y % 4 = 0 /\ y % 100 # 0) \/ y % 400 = 0

\* days of month m0 (zero-based) of year y
DaysInMonth(y, m0) ==
    IF m0 = 1 THEN (IF IsLeap(y) THEN 29 ELSE 28)
    ELSE IF m0 \in {3, 5, 8, 10} THEN 30 ELSE 31

RECURSIVE NormalizeDay(_, _, _)
\* the day overflow and underflow of the Date constructor and of setDate
NormalizeDay(y, m0, d) ==
    IF d < 1 THEN
        LET py == IF m0 = 0 THEN y - 1 ELSE y
            pm == IF m0 = 0 THEN 11 ELSE m0 - 1
        IN  NormalizeDay(py, pm, d + DaysInMonth(py, pm))
    ELSE IF d > DaysInMonth(y, m0) THEN
        LET ny == IF m0 = 11 THEN y + 1 ELSE y
            nm == IF m0 = 11 THEN 0 ELSE m0 + 1
        IN  NormalizeDay(ny, nm, d - DaysInMonth(y, m0))
    ELSE [year |-> y, month |-> m0, date |-> d]

\* new Date(year, monthIndex, day): NaN gives an Invalid Date, a year in
\* 0..99 is read as 1900 + year, and month and day overflow are carried
NewDate(y, m0, d) ==
    IF y = NaN \/ m0 = NaN \/ d = NaN THEN InvalidDate
    ELSE LET fy == IF y \in 0..99 THEN 1900 + y ELSE y
             cy == fy + (m0 \div 12)
             cm == m0 % 12
         IN  NormalizeDay(cy, cm, d)

\* tomorrow.setDate(tomorrow.getDate() + 1)
Tomorrow(dt) == NormalizeDay(dt.year, dt.month, dt.date + 1)

\* getFullYear().toString()
YearString(dt) == toString(dt.year)

\* (getMonth() + 1).toString().padStart(2, '0'): NaN + 1 is NaN
MonthString(dt) ==
    padStart2(toString(IF dt.month = NaN THEN NaN ELSE dt.month + 1))

\* getDate().toString().padStart(2, '0')
DayString(dt) == padStart2(toString(dt.date))

\* formatDate of the route: YYYY-MM-DD
formatDate(dt) ==
    YearString(dt) \o <<"-">> \o MonthString(dt) \o <<"-">> \o DayString(dt)

\* the calendar day the server starts on
StartDate == [year |-> 2025, month |-> 11, date |-> 30]

(***************************************************************************)
(* Languages and levels.                                                   *)
(***************************************************************************)
English == <<"E","n","g","l","i","s","h">>
Spanish == <<"S","p","a","n","i","s","h">>
French == <<"F","r","e","n","c","h">>
German == <<"G","e","r","m","a","n">>
Italian == <<"I","t","a","l","i","a","n">>
Portuguese == <<"P","o","r","t","u","g","u","e","s","e">>
Chinese == <<"C","h","i","n","e","s","e">>
Japanese == <<"J","a","p","a","n","e","s","e">>

SUPPORTED_LANGUAGES ==
    <<English, Spanish, French, German, Italian, Portuguese, Chinese, Japanese>>

A1 == <<"A","1">>
A2 == <<"A","2">>
B1 == <<"B","1">>
B2 == <<"B","2">>

EARLY_LEVELS == <<A1, A2>>

INTERMEDIATE_LEVELS == <<B1, B2>>

\* the languages and levels the route asks for in this model: the head of
\* SUPPORTED_LANGUAGES (the probe language and one other) and the head of
\* [...EARLY_LEVELS, ...INTERMEDIATE_LEVELS] (the probe level)
RouteLanguages == SubSeq(SUPPORTED_LANGUAGES, 1, 2)

RouteLevels == SubSeq(EARLY_LEVELS \o INTERMEDIATE_LEVELS, 1, 1)

(***************************************************************************)
(* The Store: the files under stories/, keyed by their path.               *)
(***************************************************************************)
STORIES == <<"s","t","o","r","i","e","s">>

STORY_JSON == <<"s","t","o","r","y",".","j","s","o","n">>

\* path.join(process.cwd(), 'stories', year, month, day, language, level)
DirPath(year, month, day, language, level) ==
    <<STORIES, year, month, day, language, level>>

\* path.join(dirPath, 'story.json')
FilePath(dirPath) == Append(dirPath, STORY_JSON)

\* the sample file checkStoriesExistForDate looks for
SampleFilePath(dt) ==
    LET firstLanguage == toLowerCase(SUPPORTED_LANGUAGES[1])
        firstLevel == toLowerCase(EARLY_LEVELS[1])
    IN  FilePath(DirPath(YearString(dt), MonthString(dt), DayString(dt),
                         firstLanguage, firstLevel))

(***************************************************************************)
(* StoryContent and its serialization.  A story is the record the          *)
(* provider's tool call carries; the text of a file is a sequence of       *)
(* numbers (its characters, abstracted to one per JSON token).             *)
(***************************************************************************)
TokOpen == 1000
TokClose == 1001
TokQuestion == 1002

Question(nOptions, answer) == [options |-> nOptions, correctAnswer |-> answer]

RECURSIVE StringifyQuestions(_)
StringifyQuestions(qs) ==
    IF qs = <<>> THEN <<>>
    ELSE <<TokQuestion, Head(qs).options, Head(qs).correctAnswer>>
         \o StringifyQuestions(Tail(qs))

\* JSON.stringify(story, null, 2)
JSONStringify(story) ==
    <<TokOpen, story.title, story.messages>>
    \o StringifyQuestions(story.questions) \o <<TokClose>>

RECURSIVE ParseQuestions(_)
ParseQuestions(text) ==
    IF text = <<>> THEN <<>>
    ELSE <<Question(text[2], text[3])>> \o ParseQuestions(SubSeq(text, 4, Len(text)))

\* whether JSON.parse accepts the text (it throws a SyntaxError otherwise)
JSONParses(text) ==
    /\ Len(text) >= 4
    /\ text[1] = TokOpen
    /\ text[Len(text)] = TokClose
    /\ (Len(text) - 4) % 3 = 0
    /\ \A i \in 0..((Len(text) - 4) \div 3 - 1) : text[4 + 3 * i] = TokQuestion

\* JSON.parse(fileContent), for a text it accepts
JSONParse(text) ==
    [title |-> text[2], messages |-> text[3],
     questions |-> ParseQuestions(SubSeq(text, 4, Len(text) - 1))]


(***************************************************************************)
(* The provider's batches and their outcomes.                              *)
(***************************************************************************)
NullStory == [title |-> 0, messages |-> 0, questions |-> <<>>]

\* a content block of a message: a tool call carrying its input, or text
ToolUseBlock(story) == [type |-> "tool_use", input |-> story]

TextBlock == [type |-> "text", input |-> NullStory]

\* one line of a batch's results
Outcome(customId, type, content) ==
    [custom_id |-> customId, type |-> type, content |-> content]

\* a custom_id with the date written as formatDate writes it:
\* `${year}-${month}-${day}-${language.toLowerCase()}-${level.toLowerCase()}`
CustomIdDashed(dt, language, level) ==
    formatDate(dt) \o <<"-">>
    \o toLowerCase(language) \o <<"-">> \o toLowerCase(level)

\* a custom_id that leaves the level out
CustomIdOfLanguage(dt, language, level) ==
    YearString(dt) \o MonthString(dt) \o DayString(dt) \o <<"-">>
    \o toLowerCase(language)

\* custom_id of generateDailyStories:
\* `${year}${month}${day}-${language.toLowerCase()}-${level.toLowerCase()}`
CustomId(dt, language, level) ==
    YearString(dt) \o MonthString(dt) \o DayString(dt) \o <<"-">>
    \o toLowerCase(language) \o <<"-">> \o toLowerCase(level)

\* custom_id of the waiting generateDailyStories of util.ts, whose batches
\* are on the same provider account:
\* `${language.toLowerCase()}-${level.toLowerCase()}`
LegacyCustomId(language, level) ==
    toLowerCase(language) \o <<"-">> \o toLowerCase(level)

\* the batchRequests of generateDailyStories, by their custom_id
BatchRequests(languages, levels, dt) ==
    [n \in 1..(Len(languages) * Len(levels)) |->
        CustomId(dt, languages[((n - 1) \div Len(levels)) + 1],
                     levels[((n - 1) % Len(levels)) + 1])]

(***************************************************************************)
(* Themes, storyService.ts 30-290.  A theme is named by its list and its   *)
(* place in the list; the lists have no theme twice.                       *)
(***************************************************************************)
\* EARLY_LEVEL_THEMES.length and INTERMEDIATE_LEVEL_THEMES.length
EarlyThemesLength == 99
IntermediateThemesLength == 128

\* an array read without the || '' of 286 and 288
ThemeAtUnguarded(list, length, index) == <<list, index>>

\* EARLY_LEVEL_THEMES[index] || '' and INTERMEDIATE_LEVEL_THEMES[index] || ''
ThemeAt(list, length, index) ==
    IF index = NaN \/ index < 0 \/ index >= length THEN <<>>
    ELSE <<list, index>>

\* x - Math.floor(x) for x = Math.sin(seed) * 10000, in millionths, rounded
\* down: the IEEE 754 double values for the seeds of the dates of this
\* model and the two integers after each
SinFraction ==
    10000101 :> 210690 @@ 10000102 :> 447563 @@ 10000103 :> 153892 @@
    10000104 :> 952295 @@ 20240229 :> 337971 @@ 20240230 :> 206598 @@
    20240231 :> 589929 @@ 20240301 :> 838064 @@ 20240302 :> 39922 @@
    20240303 :> 505330 @@ 20251104 :> 852203 @@ 20251105 :> 544343 @@
    20251106 :> 338207 @@ 20251107 :> 120330 @@ 20251230 :> 89158 @@
    20251231 :> 285898 @@ 20251232 :> 521966 @@ 20251233 :> 625052 @@
    20260909 :> 124571 @@ 20260910 :> 587254 @@ 20260911 :> 598072 @@
    20260912 :> 928633
\* seededRandom of 264-267, in millionths
seededRandom(seed) == IF seed = NaN THEN NaN ELSE SinFraction[seed]

\* Math.floor(random * length)
FloorTimes(random, length) ==
    IF random = NaN THEN NaN ELSE (random * length) \div 1000000

\* the seed of 274-275
DateSeed(date) ==
    IF date.year = NaN THEN NaN
    ELSE date.year * 10000 + (date.month + 1) * 100 + date.date

\* the seed with the hour of the day in it
HourSeed(date) == IF date.hours >= 12 THEN DateSeed(date) + 1 ELSE DateSeed(date)

\* lines 277-289, on the two values seededRandom returned
ThemesOfRandoms(earlyRandom, intermediateRandom) ==
    LET earlyConversationIndex == FloorTimes(earlyRandom, EarlyThemesLength)
        intermediateConversationIndex ==
            FloorTimes(intermediateRandom, IntermediateThemesLength)
    IN  [early |-> ThemeAt("early", EarlyThemesLength, earlyConversationIndex),
         intermediate |-> ThemeAt("intermediate", IntermediateThemesLength,
                                  intermediateConversationIndex)]

\* the themes of 277-289 from a seed
ThemesOfSeed(seed) ==
    ThemesOfRandoms(seededRandom(seed),
                    seededRandom(IF seed = NaN THEN NaN ELSE seed + 1))

\* a selection that takes the hour of the day into its seed
selectThemesForHour(date) == ThemesOfSeed(HourSeed(date))

\* selectThemesForDate, 270-290
selectThemesForDate(date) == ThemesOfSeed(DateSeed(date))

\* EARLY_LEVELS.includes(level)
IsEarlyLevel(level) == \E i \in 1..Len(EARLY_LEVELS) : EARLY_LEVELS[i] = level

\* a choice of 566-568 that gives the early theme to the first level only
ThemeOfFirstLevel(themes, level) ==
    IF level = EARLY_LEVELS[1] THEN themes.early ELSE themes.intermediate

\* lines 566-568
ThemeOfLevel(themes, level) ==
    IF IsEarlyLevel(level) THEN themes.early ELSE themes.intermediate

\* getPrompt(language, level, theme), 680-730: the text names the language,
\* the level and the theme
getPrompt(language, level, theme) ==
    LET questionLanguage == IF IsEarlyLevel(level) THEN English ELSE language
    IN  [language |-> language, level |-> level, theme |-> theme,
         questionLanguage |-> questionLanguage]

\* a tool whose descriptions always name the language of the story
getStoryToolInLanguage(language, level) ==
    LET minMessages == IF level = B2 THEN 12 ELSE 10
    IN  [name |-> "create_story", language |-> language, level |-> level,
         questionLanguage |-> language,
         input_schema |->
            [messages |-> [minItems |-> minMessages],
             questions |->
                [minItems |-> 3, maxItems |-> 3,
                 items |-> [options |-> [minItems |-> 4, maxItems |-> 4],
                            correctAnswer |-> [type |-> "number",
                                               minimum |-> 0,
                                               maximum |-> 3]]]]]

\* getStoryTool(language, level), 603-678: the tool's name, the language
\* and level of its description, the language the descriptions of
\* questions name, and the constraints of input_schema
getStoryTool(language, level) ==
    LET isEarlyLevel == IsEarlyLevel(level)
        questionLanguage == IF isEarlyLevel THEN English ELSE language
        minMessages == IF level = B1 THEN 10
                       ELSE IF level = B2 THEN 12 ELSE 10
    IN  [name |-> "create_story", language |-> language, level |-> level,
         questionLanguage |-> questionLanguage,
         input_schema |->
            [messages |-> [minItems |-> minMessages],
             questions |->
                [minItems |-> 3, maxItems |-> 3,
                 items |-> [options |-> [minItems |-> 4, maxItems |-> 4],
                            correctAnswer |-> [type |-> "number",
                                               minimum |-> 0,
                                               maximum |-> 3]]]]]

\* tools: [this.getStoryTool(language, level)] of each request, 581
BatchTools(languages, levels) ==
    [n \in 1..(Len(languages) * Len(levels)) |->
        getStoryTool(languages[((n - 1) \div Len(levels)) + 1],
                     levels[((n - 1) % Len(levels)) + 1])]

\* A number of a tool input is written as twice its value, so that 3 is
\* the number 1.5.  A schema of type "number" takes every number from
\* minimum to maximum; one of type "integer" takes the whole ones only.
ValidNumber(schema, twice) ==
    /\ schema.type = "integer" => twice % 2 = 0
    /\ twice >= 2 * schema.minimum
    /\ twice <= 2 * schema.maximum

\* the tool inputs input_schema admits: messages, the options of a question
\* and the questions are counted, correctAnswer is a number
ValidInput(input_schema, input) ==
    /\ input.messages >= input_schema.messages.minItems
    /\ Len(input.questions) >= input_schema.questions.minItems
    /\ Len(input.questions) <= input_schema.questions.maxItems
    /\ \A i \in 1..Len(input.questions) :
          /\ input.questions[i].options
                >= input_schema.questions.items.options.minItems
          /\ input.questions[i].options
                <= input_schema.questions.items.options.maxItems
          /\ ValidNumber(input_schema.questions.items.correctAnswer,
                         input.questions[i].correctAnswer)

\* the prompts of the batchRequests of generateDailyStories (555-586), in
\* the order of BatchRequests
BatchPrompts(languages, levels, date) ==
    LET themes == selectThemesForDate(date)
    IN  [n \in 1..(Len(languages) * Len(levels)) |->
            LET language == languages[((n - 1) \div Len(levels)) + 1]
                level == levels[((n - 1) % Len(levels)) + 1]
            IN  getPrompt(language, level, ThemeOfLevel(themes, level))]

\* a story that satisfies the tool's input_schema; every generation writes
\* its own text, told apart here by the title
GoodStory(n) ==
    [title |-> n, messages |-> 10,
     questions |-> <<Question(4, 0), Question(4, 1), Question(4, 3)>>]

\* tool inputs that do not satisfy the input_schema
TwoQuestionStory(n) ==
    [title |-> n, messages |-> 10,
     questions |-> <<Question(4, 0), Question(4, 1)>>]

BadAnswerStory(n) ==
    [title |-> n, messages |-> 10,
     questions |-> <<Question(4, 0), Question(4, 4), Question(4, 3)>>]

\* the input_schema of getStoryTool for questions: exactly 3 of them, each
\* with exactly 4 options and a correctAnswer from 0 to 3
SchemaValid(story) ==
    /\ Len(story.questions) = 3
    /\ \A i \in 1..Len(story.questions) :
          /\ story.questions[i].options = 4
          /\ story.questions[i].correctAnswer \in 0..3

\* limit of client.messages.batches.list
LIST_LIMIT == 2

\* client.messages.batches.list({ limit: 2 }): the most recent batches,
\* newest first, as records of id and processing_status
ListPage(bs) ==
    LET n == Len(bs)
        m == IF n < LIST_LIMIT THEN n ELSE LIST_LIMIT
    IN  [i \in 1..m |->
            [id |-> n + 1 - i,
             processing_status |-> bs[n + 1 - i].processing_status]]

\* Array.prototype.filter on processing_status, then map to id
IdsWithStatus(page, status) ==
    LET Keep(b) == b.processing_status = status
        kept == SelectSeq(page, Keep)
    IN  [i \in 1..Len(kept) |-> kept[i].id]

(***************************************************************************)
(* State.                                                                  *)
(***************************************************************************)
VARIABLES
    \* the provider's batches, oldest first; a batch's id is its position
    batches,
    \* the Store: path of a story.json |-> its text
    files,
    \* the directories mkdir has made
    dirs,
    \* the calendar day new Date() gives
    today,
    \* the /generate-stories requests in flight, by slot
    tr,
    \* the last response of GET /:language/:level
    page,
    \* counters of the bounds
    invocations, ticks

vars == <<batches, files, dirs, today, tr, page, invocations, ticks>>

\* the /generate-stories requests that may be in flight together
Slots == {1, 2}


(***************************************************************************)
(* The locals of one /generate-stories request.  startStore and drain      *)
(* are history variables: the files that existed when the request          *)
(* arrived, and what the drain of the current batch has done so far; so    *)
(* is startEnded, the batches that had ended when the request arrived,     *)
(* which only the specification that needs it records.                     *)
(***************************************************************************)
NoDrain ==
    [batch |-> 0, verdict |-> "none", written |-> {}, failed |-> {},
     skipped |-> {}]

IdleLocal ==
    [pc |-> "idle",
     completedBatches |-> <<>>, inProgressBatchIDs |-> <<>>,
     processedBatchIDs |-> <<>>, errorBatchIDs |-> <<>>,
     k |-> 0, allResults |-> <<>>, batchDate |-> InvalidDate, idx |-> 0,
     inProgressBatchId |-> 0, now |-> InvalidDate,
     todayExists |-> FALSE, tomorrowExists |-> FALSE,
     datesToGenerate |-> <<>>, g |-> 0, batchIds |-> <<>>,
     messages |-> <<>>, status |-> 0,
     startStore |-> {}, startEnded |-> {}, failedLast |-> {},
     firstOfProcess |-> FALSE,
     drain |-> NoDrain]

\* one line of the route's plain-text response
Message(kind, n, text) == [kind |-> kind, n |-> n, text |-> text]

(***************************************************************************)
(* processBatches, storyService.ts 332-505.                                *)
(***************************************************************************)
\* whether the custom_id of the first result passes the check of 381-382
ValidSampleCustomId(sampleCustomId) ==
    LET dateStr == At(split(sampleCustomId, "-"), 0)
    IN  ~(dateStr = <<>> \/ Len(dateStr) # 8)

\* new Date(year, month, day) of 390-393
BatchDate(sampleCustomId) ==
    LET dateStr == At(split(sampleCustomId, "-"), 0)
        year == parseInt(substring(dateStr, 0, 4))
        month == MinusOne(parseInt(substring(dateStr, 4, 6)))
        day == parseInt(substring(dateStr, 6, 8))
    IN  NewDate(year, month, day)

\* whether a result's custom_id passes the check of 411-421
ValidCustomId(customId) ==
    LET parts == split(customId, "-")
        resultDateStr == At(parts, 0)
        language == At(parts, 1)
        level == At(parts, 2)
    IN  ~(resultDateStr = <<>> \/ language = <<>> \/ level = <<>>
          \/ Len(resultDateStr) # 8)

\* content?.find((block) => block.type === 'tool_use') finds a block
HasToolUse(content) == \E i \in 1..Len(content) : content[i].type = "tool_use"

\* toolUse.input as StoryContent: the input of the first tool_use block
ToolUseInput(content) ==
    LET i == CHOOSE j \in 1..Len(content) :
                 /\ content[j].type = "tool_use"
                 /\ \A h \in 1..(j - 1) : content[h].type # "tool_use"
    IN  content[i].input

\* dirPath of 448-456, from the custom_id of the result
ResultDirPath(customId) ==
    LET parts == split(customId, "-")
        resultDateStr == At(parts, 0)
        resultYear == substring(resultDateStr, 0, 4)
        resultMonth == substring(resultDateStr, 4, 6)
        resultDay == substring(resultDateStr, 6, 8)
    IN  DirPath(resultYear, resultMonth, resultDay, At(parts, 1), At(parts, 2))

\* a result the loop awaits mkdir and writeFile for: succeeded, with a
\* custom_id that passes and a tool_use block.  Every other result is
\* logged and passed over without a suspension
ReachesWrite(result) ==
    /\ result.type = "succeeded"
    /\ ValidCustomId(result.custom_id)
    /\ HasToolUse(result.content)

RECURSIVE NextWrite(_, _)
\* the first index from i on whose result reaches mkdir, else one past the end
NextWrite(allResults, i) ==
    IF i > Len(allResults) \/ ReachesWrite(allResults[i]) THEN i
    ELSE NextWrite(allResults, i + 1)

\* storyService.processCompletedBatches(), on the lists processBatches
\* returns: the numbers of batches processed and in error
processCompletedBatches(l) ==
    [processed |-> Len(l.processedBatchIDs), errors |-> Len(l.errorBatchIDs)]

\* lines 38-49 of the route, on the result of the drain
AfterProcess(l) ==
    LET processResult == processCompletedBatches(l)
        m1 == IF processResult.processed > 0
              THEN <<Message("processed", processResult.processed, <<>>)>>
              ELSE <<>>
        m2 == IF processResult.errors > 0
              THEN <<Message("errors", processResult.errors, <<>>)>>
              ELSE <<>>
    IN  [l EXCEPT !.messages = @ \o m1 \o m2, !.pc = "check",
                  \* the locals of processBatches go out of scope
                  !.completedBatches = <<>>, !.k = 0, !.allResults = <<>>,
                  !.batchDate = InvalidDate, !.idx = 0]

\* the for loop of 364 moves to its next batch, or processBatches returns
NextBatch(l) ==
    IF l.k + 1 > Len(l.completedBatches) THEN AfterProcess(l)
    ELSE [l EXCEPT !.k = @ + 1, !.pc = "results"]

\* a `continue` that counts the batch as processed
SkipBatchAsProcessed(l, why) ==
    NextBatch([l EXCEPT !.processedBatchIDs = Append(@, l.completedBatches[l.k]),
                        !.drain.verdict = why,
                        !.drain.skipped = @ \cup {l.completedBatches[l.k]}])

\* `continue` of 376 and 402: the batch goes to neither list.  The batches
\* passed over are kept beside the lists, for the properties about them
SkipBatch(l, why) ==
    NextBatch([l EXCEPT !.drain.verdict = why,
                        !.drain.skipped = @ \cup {l.completedBatches[l.k]}])

\* a catch of 488-494 that leaves the loop of 364: the batches after the
\* failed one are not looked at
FailBatchEndsLoop(l, why) ==
    AfterProcess([l EXCEPT !.errorBatchIDs = Append(@, l.completedBatches[l.k]),
                           !.drain.verdict = why])

\* errorBatchIDs.push(batch.id) of 386 and 493
FailBatch(l, why) ==
    NextBatch([l EXCEPT !.errorBatchIDs = Append(@, l.completedBatches[l.k]),
                        !.drain.verdict = why])

\* a push of 487 that depends on what the loop wrote
ProcessedBatchIfWritten(l) ==
    IF l.drain.written = {} THEN FailBatch(l, "nothing_written")
    ELSE NextBatch([l EXCEPT !.processedBatchIDs = Append(@, l.completedBatches[l.k]),
                             !.drain.verdict = "processed"])

\* processedBatchIDs.push(batch.id) of 487
ProcessedBatch(l) ==
    NextBatch([l EXCEPT !.processedBatchIDs = Append(@, l.completedBatches[l.k]),
                        !.drain.verdict = "processed"])

\* the loop of 408 runs on from index i to its next suspension
ContinueLoop(l, i) ==
    LET j == NextWrite(l.allResults, i)
    IN  IF j > Len(l.allResults) THEN ProcessedBatch([l EXCEPT !.idx = j])
        ELSE [l EXCEPT !.idx = j, !.pc = "mkdir"]

\* a catch of 466-471 that rethrows to the catch of the batch (488-494)
CatchItemErrorAborts(l) ==
    FailBatch([l EXCEPT !.drain.failed = @ \cup {l.idx}], "item_failed")

\* the catch of 466-471: the error of one result is logged and the loop
\* goes on with the next result
CatchItemError(l) ==
    ContinueLoop([l EXCEPT !.drain.failed = @ \cup {l.idx}], l.idx + 1)

\* lines 374-393, on the results collected at 367-372
AfterResults(l, batchId, allResults) ==
    LET l1 == [l EXCEPT !.allResults = allResults,
                        !.drain = [batch |-> batchId, verdict |-> "running",
                                   written |-> {}, failed |-> {},
                                   skipped |-> l.drain.skipped]]
    IN  IF Len(allResults) = 0 THEN SkipBatch(l1, "no_results")
        ELSE IF ~ValidSampleCustomId(allResults[1].custom_id)
             THEN FailBatch(l1, "invalid_sample")
        ELSE [l1 EXCEPT !.batchDate = BatchDate(allResults[1].custom_id),
                        !.pc = "exists"]

\* a drain that does not look at the answer of checkStoriesExistForDate
AfterStoriesExistGoesOn(l, storiesExist) == ContinueLoop(l, 1)

\* lines 396-408, on the answer of checkStoriesExistForDate
AfterStoriesExist(l, storiesExist) ==
    IF storiesExist THEN SkipBatch(l, "stories_exist")
    ELSE ContinueLoop(l, 1)

\* appending `text` to what is at `path`
WriteAtAppending(fs, path, text) ==
    [q \in (DOMAIN fs) \cup {path} |->
        IF q # path THEN fs[q]
        ELSE IF path \in DOMAIN fs THEN fs[path] \o text ELSE text]

\* writing `text` at `path`
WriteAt(fs, path, text) ==
    [q \in (DOMAIN fs) \cup {path} |-> IF q = path THEN text ELSE fs[q]]

\* the answer of access(sampleFilePath) in checkStoriesExistForDate
checkStoriesExistForDate(fs, dt) == SampleFilePath(dt) \in DOMAIN fs


(***************************************************************************)
(* GET /generate-stories, part_000 33-150.                                 *)
(***************************************************************************)
\* the catch of 136-149: a 500 response
RouteError(l) ==
    [IdleLocal EXCEPT !.messages = <<Message("error", 0, <<>>)>>,
                      !.status = 500, !.pc = "done"]

\* res.send(messages.join('\n')): the handler returns and only the
\* response is left of it.  What the request decided is kept beside the
\* response, for the properties that speak of it
Send(l) ==
    [IdleLocal EXCEPT !.messages = l.messages, !.status = 200, !.pc = "done",
                      !.inProgressBatchId = l.inProgressBatchId,
                      !.todayExists = l.todayExists,
                      !.tomorrowExists = l.tomorrowExists,
                      !.datesToGenerate = l.datesToGenerate,
                      !.batchIds = l.batchIds,
                      !.firstOfProcess = l.firstOfProcess]

\* the route without the return of 53-63: it goes on to the dates whatever
\* checkInProgressBatch answered
AfterInProgressCheckUnguarded(l, inProgressBatchId, nowDate) ==
    [l EXCEPT !.now = nowDate, !.pc = "today",
              !.processedBatchIDs = <<>>, !.errorBatchIDs = <<>>,
              !.inProgressBatchIDs = <<>>, !.drain = NoDrain]

\* a route that returns at 53-63 only for a batch its own process knows of:
\* the first request of a process goes on to the dates
AfterInProgressCheckRemembered(l, inProgressBatchId, nowDate) ==
    IF inProgressBatchId # 0 /\ ~l.firstOfProcess
    THEN Send([l EXCEPT !.inProgressBatchId = inProgressBatchId,
                        !.messages = @ \o
                            <<Message("in_progress", inProgressBatchId, <<>>),
                              Message("call_again", 0, <<>>)>>])
    ELSE [l EXCEPT !.now = nowDate, !.pc = "today",
                   !.processedBatchIDs = <<>>, !.errorBatchIDs = <<>>,
                   !.inProgressBatchIDs = <<>>, !.drain = NoDrain]

\* lines 53-67, on the answer of checkInProgressBatch (0 for none)
AfterInProgressCheck(l, inProgressBatchId, nowDate) ==
    IF inProgressBatchId # 0
    THEN Send([l EXCEPT !.inProgressBatchId = inProgressBatchId,
                        !.messages = @ \o
                            <<Message("in_progress", inProgressBatchId, <<>>),
                              Message("call_again", 0, <<>>)>>])
    ELSE [l EXCEPT !.now = nowDate, !.pc = "today",
                   \* processResult is not read again
                   !.processedBatchIDs = <<>>, !.errorBatchIDs = <<>>,
                   !.inProgressBatchIDs = <<>>, !.drain = NoDrain]

\* lines 81-83 without their two conditions: both dates, whatever exists
DatesToGenerateAlways(nowDate, todayExists, tomorrowExists) ==
    <<nowDate, Tomorrow(nowDate)>>

\* lines 81-83
DatesToGenerate(nowDate, todayExists, tomorrowExists) ==
    (IF ~todayExists THEN <<nowDate>> ELSE <<>>)
    \o (IF ~tomorrowExists THEN <<Tomorrow(nowDate)>> ELSE <<>>)

\* lines 79-95, on the answer of the second checkStoriesExistForDate
AfterExistChecks(l, tomorrowExists) ==
    LET dates == DatesToGenerate(l.now, l.todayExists, tomorrowExists)
        l1 == [l EXCEPT !.tomorrowExists = tomorrowExists,
                        !.datesToGenerate = dates]
    IN  IF Len(dates) = 0
        THEN Send([l1 EXCEPT !.messages = @ \o
                       <<Message("already_generated", 0,
                                 formatDate(l.now) \o <<" ">>
                                 \o formatDate(Tomorrow(l.now)))>>])
        ELSE [l1 EXCEPT !.g = 1, !.pc = "create"]

\* the for loop of 97 moves to its next date, or lines 124-134 respond
NextDate(l) ==
    IF l.g + 1 > Len(l.datesToGenerate)
    THEN Send([l EXCEPT !.messages = @ \o
                   (IF Len(l.batchIds) > 0
                    THEN <<Message("available_later", 0, <<>>),
                           Message("call_again", 0, <<>>)>>
                    ELSE <<>>)])
    ELSE [l EXCEPT !.g = @ + 1]

\* lines 105-110, on the id generateDailyStories returned
AfterCreate(l, batchId) ==
    NextDate([l EXCEPT !.batchIds = Append(@, batchId),
                       !.messages = Append(@,
                           Message("batch_created", batchId,
                                   formatDate(l.datesToGenerate[l.g])))])

\* a catch of 111-121 that gives up the request
AfterCreateErrorAborts(l) == RouteError(l)

\* the catch of 111-121
AfterCreateError(l) ==
    NextDate([l EXCEPT !.messages = Append(@,
                           Message("create_failed", 0,
                                   formatDate(l.datesToGenerate[l.g])))])

\* the batch client.messages.batches.create makes of generateDailyStories'
\* requests (storyService.ts 543-601)
NewBatch(languages, levels, dt) ==
    [processing_status |-> "in_progress",
     requests |-> BatchRequests(languages, levels, dt),
     results |-> <<>>]

(***************************************************************************)
(* Actions of one /generate-stories request in slot t.  Each is one        *)
(* suspension of the handler: the code from one await to the next.         *)
(***************************************************************************)
\* the request arrives; the handler runs to the list call of processBatches
StartWith(t, ended) ==
    /\ tr[t].pc \in {"idle", "done"}
    /\ invocations < MaxInvocations
    /\ invocations' = invocations + 1
    /\ tr' = [tr EXCEPT ![t] = [IdleLocal EXCEPT !.pc = "list",
                                                 !.startStore = DOMAIN files,
                                                 !.startEnded = ended]]
    /\ UNCHANGED <<batches, files, dirs, today, page, ticks>>

Start(t) == StartWith(t, {})

\* the same step, recording the batches that have ended
StartObserved(t) ==
    StartWith(t, {b \in 1..Len(batches) : batches[b].processing_status = "ended"})

\* the dates of the "Failed to create batch for" lines of a response
FailedDates(messages) ==
    {messages[i].text : i \in {j \in 1..Len(messages) :
                                  messages[j].kind = "create_failed"}}

\* the same step, recording the dates the previous response reported as
\* failed
StartAfterFailure(t) ==
    /\ tr[t].pc \in {"idle", "done"}
    /\ invocations < MaxInvocations
    /\ invocations' = invocations + 1
    /\ tr' = [tr EXCEPT ![t] = [IdleLocal EXCEPT
                  !.pc = "list",
                  !.startStore = DOMAIN files,
                  !.failedLast = FailedDates(tr[t].messages)]]
    /\ UNCHANGED <<batches, files, dirs, today, page, ticks>>

\* storyService.ts 340-362: the page of batches arrives
ListBatches(t) ==
    /\ tr[t].pc = "list"
    /\ LET pg == ListPage(batches)
       IN  tr' = [tr EXCEPT ![t] =
                    NextBatch([@ EXCEPT
                        !.completedBatches = IdsWithStatus(pg, "ended"),
                        !.inProgressBatchIDs = IdsWithStatus(pg, "in_progress"),
                        !.k = 0])]
    /\ UNCHANGED <<batches, files, dirs, today, page, invocations, ticks>>

\* the list call rejects: processBatches rethrows (498-504), the route
\* answers 500
ListFails(t) ==
    /\ tr[t].pc = "list"
    /\ tr' = [tr EXCEPT ![t] = RouteError(@)]
    /\ UNCHANGED <<batches, files, dirs, today, page, invocations, ticks>>

\* storyService.ts 367-393: the results of the current batch arrive
FetchResults(t) ==
    /\ tr[t].pc = "results"
    /\ LET b == tr[t].completedBatches[tr[t].k]
       IN  tr' = [tr EXCEPT ![t] = AfterResults(@, b, batches[b].results)]
    /\ UNCHANGED <<batches, files, dirs, today, page, invocations, ticks>>

\* the results call or its stream rejects: the catch of 488-494
FetchFails(t) ==
    /\ tr[t].pc = "results"
    /\ LET b == tr[t].completedBatches[tr[t].k]
       IN  tr' = [tr EXCEPT ![t] =
                    FailBatch([@ EXCEPT !.drain = [NoDrain EXCEPT
                                                      !.batch = b,
                                                      !.skipped = tr[t].drain.skipped]],
                              "fetch_failed")]
    /\ UNCHANGED <<batches, files, dirs, today, page, invocations, ticks>>

\* storyService.ts 396-408: the probe of the batch's date answers
StoriesExist(t) ==
    /\ tr[t].pc = "exists"
    /\ tr' = [tr EXCEPT ![t] =
                AfterStoriesExist(@, checkStoriesExistForDate(files, tr[t].batchDate))]
    /\ UNCHANGED <<batches, files, dirs, today, page, invocations, ticks>>

\* storyService.ts 457: mkdir(dirPath, { recursive: true }) resolves
Mkdir(t) ==
    /\ tr[t].pc = "mkdir"
    /\ dirs' = dirs \cup {ResultDirPath(tr[t].allResults[tr[t].idx].custom_id)}
    /\ tr' = [tr EXCEPT ![t].pc = "open"]
    /\ UNCHANGED <<batches, files, today, page, invocations, ticks>>

\* mkdir rejects
MkdirFails(t) ==
    /\ tr[t].pc = "mkdir"
    /\ tr' = [tr EXCEPT ![t] = CatchItemError(@)]
    /\ UNCHANGED <<batches, files, dirs, today, page, invocations, ticks>>

\* storyService.ts 460: writeFile opens the file for writing, which creates
\* or truncates it
OpenFile(t) ==
    /\ tr[t].pc = "open"
    /\ LET path == FilePath(ResultDirPath(tr[t].allResults[tr[t].idx].custom_id))
       IN  files' = WriteAt(files, path, <<>>)
    /\ tr' = [tr EXCEPT ![t].pc = "write"]
    /\ UNCHANGED <<batches, dirs, today, page, invocations, ticks>>

\* the open of writeFile rejects
OpenFails(t) ==
    /\ tr[t].pc = "open"
    /\ tr' = [tr EXCEPT ![t] = CatchItemError(@)]
    /\ UNCHANGED <<batches, files, dirs, today, page, invocations, ticks>>

\* storyService.ts 460-465: writeFile writes JSON.stringify(story, null, 2)
\* and resolves; the loop runs on
WriteFile(t) ==
    /\ tr[t].pc = "write"
    /\ LET result == tr[t].allResults[tr[t].idx]
           story == ToolUseInput(result.content)
           path == FilePath(ResultDirPath(result.custom_id))
       IN  files' = WriteAt(files, path, JSONStringify(story))
    /\ tr' = [tr EXCEPT ![t] =
                ContinueLoop([@ EXCEPT !.drain.written = @ \cup {tr[t].idx}],
                             tr[t].idx + 1)]
    /\ UNCHANGED <<batches, dirs, today, page, invocations, ticks>>

\* the write of writeFile rejects, after the open
WriteFails(t) ==
    /\ tr[t].pc = "write"
    /\ tr' = [tr EXCEPT ![t] = CatchItemError(@)]
    /\ UNCHANGED <<batches, files, dirs, today, page, invocations, ticks>>

\* part_000 52-67: checkInProgressBatch answers with the id of a listed
\* batch that is in_progress, if any
CheckInProgress(t) ==
    /\ tr[t].pc = "check"
    /\ LET ids == IdsWithStatus(ListPage(batches), "in_progress")
           id == IF ids = <<>> THEN 0 ELSE ids[1]
       IN  tr' = [tr EXCEPT ![t] = AfterInProgressCheck(@, id, today)]
    /\ UNCHANGED <<batches, files, dirs, today, page, invocations, ticks>>

\* checkInProgressBatch rejects: the route answers 500
CheckFails(t) ==
    /\ tr[t].pc = "check"
    /\ tr' = [tr EXCEPT ![t] = RouteError(@)]
    /\ UNCHANGED <<batches, files, dirs, today, page, invocations, ticks>>

\* part_000 78: checkStoriesExistForDate(now) answers
TodayExists(t) ==
    /\ tr[t].pc = "today"
    /\ tr' = [tr EXCEPT ![t] =
                [@ EXCEPT !.todayExists = checkStoriesExistForDate(files, tr[t].now),
                          !.pc = "tomorrow"]]
    /\ UNCHANGED <<batches, files, dirs, today, page, invocations, ticks>>

\* part_000 79-95: checkStoriesExistForDate(tomorrow) answers
TomorrowExists(t) ==
    /\ tr[t].pc = "tomorrow"
    /\ tr' = [tr EXCEPT ![t] =
                AfterExistChecks(@, checkStoriesExistForDate(files, Tomorrow(tr[t].now)))]
    /\ UNCHANGED <<batches, files, dirs, today, page, invocations, ticks>>

\* a generateDailyStories that waits for its batch to end and saves the
\* stories before it returns, as the one of util.ts does
CreateBatchWaiting(t, cap) ==
    /\ tr[t].pc = "create"
    /\ Len(batches) < cap
    /\ LET id == Len(batches) + 1
           batch == NewBatch(RouteLanguages, RouteLevels,
                             tr[t].datesToGenerate[tr[t].g])
           results == [i \in 1..Len(batch.requests) |->
                          Outcome(batch.requests[i], "succeeded",
                                  <<ToolUseBlock(GoodStory(id))>>)]
           paths == {FilePath(ResultDirPath(batch.requests[i])) :
                        i \in 1..Len(batch.requests)}
       IN  /\ batches' = Append(batches,
                                [batch EXCEPT !.processing_status = "ended",
                                              !.results = results])
           /\ files' = [q \in (DOMAIN files) \cup paths |->
                           IF q \in paths THEN JSONStringify(GoodStory(id))
                           ELSE files[q]]
           /\ tr' = [tr EXCEPT ![t] = AfterCreate(@, id)]
    /\ UNCHANGED <<dirs, today, page, invocations, ticks>>

\* part_000 99-110 and storyService.ts 591-600: the provider creates the
\* batch of the current date, while the model holds fewer than cap batches
CreateBatchWithin(t, cap) ==
    /\ tr[t].pc = "create"
    /\ Len(batches) < cap
    /\ batches' = Append(batches,
                         NewBatch(RouteLanguages, RouteLevels,
                                  tr[t].datesToGenerate[tr[t].g]))
    /\ tr' = [tr EXCEPT ![t] = AfterCreate(@, Len(batches) + 1)]
    /\ UNCHANGED <<files, dirs, today, page, invocations, ticks>>

CreateBatch(t) == CreateBatchWithin(t, MaxBatches)

\* the create call rejects
CreateFails(t) ==
    /\ tr[t].pc = "create"
    /\ tr' = [tr EXCEPT ![t] = AfterCreateError(@)]
    /\ UNCHANGED <<batches, files, dirs, today, page, invocations, ticks>>

\* the steps of a request that has arrived, up to its first create call,
\* when its provider and file-system calls succeed
StepsToCreate(t) ==
    \/ ListBatches(t)
    \/ FetchResults(t)
    \/ StoriesExist(t)
    \/ Mkdir(t)
    \/ OpenFile(t)
    \/ WriteFile(t)
    \/ CheckInProgress(t)
    \/ TodayExists(t)
    \/ TomorrowExists(t)

\* the steps of a request that has arrived
Steps(t) ==
    \/ StepsToCreate(t)
    \/ CreateBatch(t)

\* the steps of a request whose provider and file-system calls succeed
Trigger(t) ==
    \/ Start(t)
    \/ Steps(t)

\* a provider call of the request rejects
ApiFault(t) ==
    \/ ListFails(t)
    \/ FetchFails(t)
    \/ CheckFails(t)
    \/ CreateFails(t)

\* a file-system call of the request rejects
IoFault(t) ==
    \/ MkdirFails(t)
    \/ OpenFails(t)
    \/ WriteFails(t)


(***************************************************************************)
(* The provider and the calendar.  The lifecycle of a batch is the         *)
(* provider's: this system only sees processing_status and the results.    *)
(***************************************************************************)
\* the outcome of one request, by the type of its result
OutcomeOf(batchId, customId, type) ==
    Outcome(customId, type,
            IF type = "succeeded" THEN <<ToolUseBlock(GoodStory(batchId))>> ELSE <<>>)

\* the types the results of an ending batch may have
EndTypes(status) ==
    IF status = "canceling" THEN {"succeeded", "canceled"}
    ELSE {"succeeded", "errored"}

\* a batch ends: each of its requests gets an outcome, of the given types
ProviderEndsWith(b, types) ==
    /\ b \in 1..Len(batches)
    /\ batches[b].processing_status \in {"in_progress", "canceling"}
    /\ batches' = [batches EXCEPT
          ![b].processing_status = "ended",
          ![b].results = [i \in 1..Len(batches[b].requests) |->
                             OutcomeOf(b, batches[b].requests[i], types[i])]]
    /\ UNCHANGED <<files, dirs, today, tr, page, invocations, ticks>>

\* a batch ends, with outcomes of any of the types its status allows
ProviderEnds(b) ==
    \E types \in [1..Len(batches[b].requests) ->
                     EndTypes(batches[b].processing_status)] :
        ProviderEndsWith(b, types)

\* a batch ends with every request succeeded
ProviderEndsWell(b) ==
    /\ b \in 1..Len(batches)
    /\ ProviderEndsWith(b, [i \in 1..Len(batches[b].requests) |-> "succeeded"])

\* a batch is canceled on the provider's side
ProviderCancels(b) ==
    /\ batches[b].processing_status = "in_progress"
    /\ batches' = [batches EXCEPT ![b].processing_status = "canceling"]
    /\ UNCHANGED <<files, dirs, today, tr, page, invocations, ticks>>

\* midnight passes
Tick ==
    /\ ticks < MaxTicks
    /\ ticks' = ticks + 1
    /\ today' = Tomorrow(today)
    /\ UNCHANGED <<batches, files, dirs, tr, page, invocations>>

(***************************************************************************)
(* GET /:language/:level, part_000 153-250.                                *)
(***************************************************************************)
NoPage == [status |-> 0, view |-> "none", found |-> FALSE, text |-> <<>>,
           content |-> NullStory, path |-> <<>>]

\* a filePath without the toLowerCase() of line 200
StoryFilePathUpperLevel(language, level, nowDate) ==
    LET normalizedLanguage == toLowerCase(language)
        normalizedLevel == toUpperCase(level)
    IN  FilePath(DirPath(YearString(nowDate), MonthString(nowDate),
                         DayString(nowDate), normalizedLanguage,
                         normalizedLevel))

\* filePath of 193-202
StoryFilePath(language, level, nowDate) ==
    LET normalizedLanguage == toLowerCase(language)
        normalizedLevel == toUpperCase(level)
    IN  FilePath(DirPath(YearString(nowDate), MonthString(nowDate),
                         DayString(nowDate), normalizedLanguage,
                         toLowerCase(normalizedLevel)))

\* lines 161-165
IsValidLanguage(language) ==
    \E i \in 1..Len(SUPPORTED_LANGUAGES) :
        toLowerCase(SUPPORTED_LANGUAGES[i]) = toLowerCase(language)

IsValidLevel(level) ==
    LET allLevels == EARLY_LEVELS \o INTERMEDIATE_LEVELS
    IN  \E i \in 1..Len(allLevels) : allLevels[i] = toUpperCase(level)

\* the response of the route.  found and text record what readFile gave
StoryPage(fs, language, level, nowDate) ==
    LET path == StoryFilePath(language, level, nowDate)
    IN  IF ~IsValidLanguage(language) \/ ~IsValidLevel(level)
        THEN [NoPage EXCEPT !.status = 400, !.view = "error"]
        ELSE IF path \notin DOMAIN fs
        THEN [NoPage EXCEPT !.status = 200, !.view = "no-story-today",
                            !.path = path]
        ELSE IF ~JSONParses(fs[path])
        THEN [NoPage EXCEPT !.status = 200, !.view = "no-story-today",
                            !.found = TRUE, !.text = fs[path], !.path = path]
        ELSE [NoPage EXCEPT !.status = 200, !.view = "story",
                            !.found = TRUE, !.text = fs[path],
                            !.content = JSONParse(fs[path]), !.path = path]

\* the URL segments of the requests made in this model
RequestedStories ==
    {<<toLowerCase(English), toLowerCase(A1)>>,
     <<toUpperCase(Spanish), A1>>,
     <<<<"K","l","i","n","g","o","n">>, A1>>}

\* the route of src/index.ts 29-68, which generates the story it does not
\* find and renders it
GetStoryOnDemand ==
    /\ \E rq \in RequestedStories :
          LET p == StoryPage(files, rq[1], rq[2], today)
          IN  page' = IF p.view = "no-story-today"
                      THEN [p EXCEPT !.view = "story", !.content = GoodStory(0)]
                      ELSE p
    /\ UNCHANGED <<batches, files, dirs, today, tr, invocations, ticks>>

\* a reader asks for today's story
GetStory ==
    /\ \E rq \in RequestedStories : page' = StoryPage(files, rq[1], rq[2], today)
    /\ UNCHANGED <<batches, files, dirs, today, tr, invocations, ticks>>

(***************************************************************************)
(* Specifications.                                                         *)
(***************************************************************************)
\* the server starts with an empty stories/ directory and an account with
\* no batches
Init ==
    /\ batches = <<>>
    /\ files = <<>>
    /\ dirs = {}
    /\ today = StartDate
    /\ tr = [t \in Slots |-> IdleLocal]
    /\ page = NoPage
    /\ invocations = 0
    /\ ticks = 0

\* requests arrive one at a time and their calls succeed; batches end and
\* midnight passes at any moment
Next ==
    \/ Trigger(1)
    \/ \E b \in 1..Len(batches) : ProviderEnds(b)
    \/ Tick

Spec == Init /\ [][Next]_vars

\* the same, with batches that are canceled on the provider's side
NextCancel ==
    \/ Next
    \/ \E b \in 1..Len(batches) : ProviderCancels(b)

SpecCancel == Init /\ [][NextCancel]_vars

\* Spec, with the history of the batches ended at the arrival of a request
NextOrder ==
    \/ StartObserved(1)
    \/ Steps(1)
    \/ \E b \in 1..Len(batches) : ProviderEnds(b)
    \/ Tick

SpecOrder == Init /\ [][NextOrder]_vars

\* requests whose create calls may reject, with a record of the dates the
\* previous response reported as failed; every batch ends with every
\* request succeeded
NextRetry ==
    \/ StartAfterFailure(1)
    \/ Steps(1)
    \/ CreateFails(1)
    \/ \E b \in 1..Len(batches) : ProviderEndsWell(b)
    \/ Tick

SpecRetry == Init /\ [][NextRetry]_vars

(***************************************************************************)
(* Requests that keep arriving, one at a time, with a provider that ends   *)
(* every batch with every request succeeded and no call that fails.  The   *)
(* list call returns the LIST_LIMIT most recent batches only, so the       *)
(* older ones are dropped when a request arrives; a request adds at most   *)
(* two batches to those.                                                   *)
(***************************************************************************)
\* the batches a list call can still return
Listable(bs) ==
    IF Len(bs) <= LIST_LIMIT THEN bs
    ELSE SubSeq(bs, Len(bs) - LIST_LIMIT + 1, Len(bs))

\* the batches the provider holds for the model at most
LiveBatches == LIST_LIMIT + 2

\* a further request arrives
StartAgain(t) ==
    /\ tr[t].pc \in {"idle", "done"}
    /\ batches' = Listable(batches)
    /\ tr' = [tr EXCEPT ![t] = [IdleLocal EXCEPT !.pc = "list",
                                                 !.startStore = DOMAIN files]]
    /\ UNCHANGED <<files, dirs, today, page, invocations, ticks>>

\* the steps of the request
StepsLive(t) ==
    \/ StepsToCreate(t)
    \/ CreateBatchWithin(t, LiveBatches)

NextLive ==
    \/ StartAgain(1)
    \/ StepsLive(1)
    \/ \E b \in 1..Len(batches) : ProviderEndsWell(b)

\* the handler is between two of its steps: a step of StepsLive is enabled
\* exactly then, each await of the handler being answered in this model
Running(t) == tr[t].pc \notin {"idle", "done"}

\* weak fairness of the handler's steps, WF_vars(StepsLive(t)) with its
\* enabling condition written as Running(t)
StepsGoOn(t) == []<>(~Running(t)) \/ []<><<StepsLive(t)>>_vars

\* a new request always arrives, the handler goes on whenever the call it
\* awaits has answered, and every batch ends
FairLive ==
    /\ WF_vars(StartAgain(1))
    /\ StepsGoOn(1)
    /\ \A b \in 1..LiveBatches : WF_vars(ProviderEndsWell(b))

SpecLive == Init /\ [][NextLive]_vars /\ FairLive

(***************************************************************************)
(* One drain of one ended batch, whatever its results are.  The account    *)
(* is shared with the waiting generateDailyStories of util.ts, and the     *)
(* tool input of a result is whatever the provider returned.               *)
(***************************************************************************)
\* a custom_id with a date and a language but no level
NoLevelId ==
    YearString(StartDate) \o MonthString(StartDate) \o DayString(StartDate)
    \o <<"-">> \o toLowerCase(English)

\* the outcomes the results of that batch are drawn from
OutcomePool ==
    LET english == CustomId(StartDate, English, A1)
        spanish == CustomId(StartDate, Spanish, A1)
    IN  { Outcome(english, "succeeded", <<ToolUseBlock(GoodStory(1))>>),
          Outcome(spanish, "succeeded", <<TextBlock, ToolUseBlock(GoodStory(2))>>),
          Outcome(english, "succeeded", <<TextBlock>>),
          Outcome(spanish, "errored", <<>>),
          Outcome(english, "expired", <<>>),
          Outcome(LegacyCustomId(Spanish, A1), "succeeded",
                  <<ToolUseBlock(GoodStory(3))>>),
          Outcome(NoLevelId, "succeeded", <<ToolUseBlock(GoodStory(4))>>),
          Outcome(english, "succeeded", <<ToolUseBlock(TwoQuestionStory(5))>>),
          Outcome(spanish, "succeeded", <<ToolUseBlock(BadAnswerStory(6))>>) }

\* an ended batch with the given results
EndedBatch(results) ==
    [processing_status |-> "ended",
     requests |-> [i \in 1..Len(results) |-> results[i].custom_id],
     results |-> results]

\* the account holds one ended batch, the stories/ directory is empty and
\* one request is still to come
InitDrain ==
    /\ \E n \in 0..MaxOutcomes : \E results \in [1..n -> OutcomePool] :
          batches = <<EndedBatch(results)>>
    /\ files = <<>>
    /\ dirs = {}
    /\ today = StartDate
    /\ tr = [t \in Slots |-> IdleLocal]
    /\ page = NoPage
    /\ invocations = MaxInvocations - 1
    /\ ticks = 0

\* the request runs; any of its provider and file-system calls may reject
NextDrain ==
    \/ Trigger(1)
    \/ ApiFault(1)
    \/ IoFault(1)

SpecDrain == InitDrain /\ [][NextDrain]_vars

(***************************************************************************)
(* Requests for /generate-stories with readers of today's stories beside   *)
(* them; every batch ends with every request succeeded.                    *)
(***************************************************************************)
NextRead ==
    \/ Trigger(1)
    \/ \E b \in 1..Len(batches) : ProviderEndsWell(b)
    \/ Tick
    \/ GetStory

SpecRead == Init /\ [][NextRead]_vars

(***************************************************************************)
(* One drain of the batch generateDailyStories builds for one language,    *)
(* one level and one date, ended with its request succeeded.               *)
(***************************************************************************)
\* the dates of these batches: the first and the last day with a four-digit
\* year, a leap day, days and months of one and of two digits
IdDates ==
    {[year |-> 2025, month |-> 10, date |-> 4],
     [year |-> 2026, month |-> 8, date |-> 9],
     [year |-> 2024, month |-> 1, date |-> 29],
     [year |-> 1000, month |-> 0, date |-> 1],
     [year |-> 9999, month |-> 11, date |-> 31],
     StartDate}

\* [...EARLY_LEVELS, ...INTERMEDIATE_LEVELS]
AllLevels == EARLY_LEVELS \o INTERMEDIATE_LEVELS

InitId ==
    /\ \E dt \in IdDates :
       \E i \in 1..Len(SUPPORTED_LANGUAGES) :
       \E j \in 1..Len(AllLevels) :
          LET requests == BatchRequests(<<SUPPORTED_LANGUAGES[i]>>,
                                        <<AllLevels[j]>>, dt)
          IN  /\ batches = <<EndedBatch([n \in 1..Len(requests) |->
                                 OutcomeOf(1, requests[n], "succeeded")])>>
              /\ today = dt
    /\ files = <<>>
    /\ dirs = {}
    /\ tr = [t \in Slots |-> IdleLocal]
    /\ page = NoPage
    /\ invocations = MaxInvocations - 1
    /\ ticks = 0

NextId == Trigger(1)

SpecId == InitId /\ [][NextId]_vars

(***************************************************************************)
(* The same drain, with readers of today's stories beside it.              *)
(***************************************************************************)
NextServe ==
    \/ Trigger(1)
    \/ GetStory

SpecServe == InitDrain /\ [][NextServe]_vars


(***************************************************************************)
(* Properties of the /generate-stories route.                              *)
(***************************************************************************)
\* the batches of the page of the list call whose status is in_progress
ListedInProgress ==
    {b \in 1..Len(batches) :
        /\ b > Len(batches) - LIST_LIMIT
        /\ batches[b].processing_status = "in_progress"}

\* the batches whose status is in_progress
InFlight ==
    {b \in 1..Len(batches) : batches[b].processing_status = "in_progress"}

\* the kinds of the lines of a response
Kinds(messages) == {messages[i].kind : i \in 1..Len(messages)}

\* the step in which checkInProgressBatch answers request t
InProgressCheckAnswers(t) == tr[t].pc = "check" /\ tr'[t].pc # "check"

\* the step of C1: the check answers while a batch is listed in_progress
GuardedStep(t) ==
    (InProgressCheckAnswers(t) /\ ListedInProgress # {})
    => /\ batches' = batches
       /\ tr'[t].pc = "done"
       /\ tr'[t].status = 200
       /\ tr'[t].batchIds = <<>>
       /\ "error" \notin Kinds(tr'[t].messages)
       /\ \E i \in 1..Len(tr'[t].messages) :
             /\ tr'[t].messages[i].kind = "in_progress"
             /\ tr'[t].messages[i].n \in ListedInProgress

\* C1: whenever the in-progress check of a /generate-stories request answers
\* while the provider lists a batch whose status is in_progress, the request
\* submits no batch and ends with a 200 response that carries the id of a
\* listed in_progress batch and no error line.
InFlightGuard == [][\A t \in Slots : GuardedStep(t)]_vars

\* a request has answered that a batch, still in_progress, is running
InFlightGuardReached ==
    /\ tr[1].pc = "done"
    /\ tr[1].inProgressBatchId \in InFlight
    /\ "in_progress" \in Kinds(tr[1].messages)

\* C2: in every reachable state at most one submitted batch has the status
\* in_progress.
AtMostOneInFlight == Cardinality(InFlight) <= 1

\* the date of a batch generateDailyStories submitted, from its first request
SubmittedDate(batch) == BatchDate(batch.requests[1])

\* a step that submits a batch submits it for a date whose probe fails
SubmitsOnlyMissing ==
    Len(batches') > Len(batches)
    => ~checkStoriesExistForDate(files, SubmittedDate(batches'[Len(batches')]))

\* the step in which the second probe answers request t, both dates existing
BothExistStep(t) ==
    /\ tr[t].pc = "tomorrow"
    /\ tr'[t].pc # "tomorrow"
    /\ checkStoriesExistForDate(files, tr[t].now)
    /\ checkStoriesExistForDate(files, Tomorrow(tr[t].now))

\* C3: a /generate-stories request never submits a batch for a date for which
\* checkStoriesExistForDate answers true, however many requests came before;
\* when it answers true for today and for tomorrow, the request ends without
\* a call of generateDailyStories.
IdempotentCacheWrite ==
    [][/\ SubmitsOnlyMissing
       /\ \A t \in Slots :
             BothExistStep(t) => /\ batches' = batches
                                 /\ tr'[t].pc = "done"
                                 /\ tr'[t].batchIds = <<>>]_vars

\* a request found the stories of today and of tomorrow and submitted nothing
IdempotentCacheWriteReached ==
    /\ tr[1].pc = "done"
    /\ tr[1].status = 200
    /\ tr[1].todayExists
    /\ tr[1].tomorrowExists
    /\ tr[1].batchIds = <<>>
    /\ "already_generated" \in Kinds(tr[1].messages)
    /\ Len(batches) = 2

\* C5: once a story file holds its complete text, no step removes it or
\* changes its text.
NeverMutated ==
    [][\A p \in DOMAIN files :
          JSONParses(files[p]) => (p \in DOMAIN files' /\ files'[p] = files[p])]_vars

(***************************************************************************)
(* Properties of the drain of one ended batch.                             *)
(***************************************************************************)
\* the results of the batch the run starts with
Results == batches[1].results

\* processBatches has returned to the route and the drain was of batch 1,
\* whose results arrived
Drained ==
    /\ tr[1].pc = "check"
    /\ tr[1].drain.batch = 1
    /\ tr[1].drain.verdict # "fetch_failed"

\* the batch is in the list
InList(ids, b) == \E i \in 1..Len(ids) : ids[i] = b

\* an outcome that yields a StoryContent: succeeded, with an identifier of
\* date, language and level and a tool input that satisfies the schema
YieldsStoryContent(result) ==
    /\ ReachesWrite(result)
    /\ SchemaValid(ToolUseInput(result.content))

Malformed == {i \in 1..Len(Results) : ~YieldsStoryContent(Results[i])}

\* C4: when the drain of an ended batch of N outcomes, k of them malformed,
\* is over and no file-system call failed, exactly N-k outcomes were written
\* and the count of errors processBatches returns to its caller is k.
PartialFailureContainment ==
    (Drained /\ tr[1].drain.failed = {})
    => /\ Cardinality(tr[1].drain.written) = Len(Results) - Cardinality(Malformed)
       /\ Len(tr[1].errorBatchIDs) = Cardinality(Malformed)

\* C6: when the drain of a batch whose identifiers are all well-formed is
\* over, every succeeded outcome with a tool call whose own mkdir and
\* writeFile did not fail was written, whatever the other outcomes of the
\* batch were and whichever of their file-system calls failed.
PerItemIndependence ==
    (Drained /\ \A i \in 1..Len(Results) : ValidCustomId(Results[i].custom_id))
    => \A i \in 1..Len(Results) :
          (ReachesWrite(Results[i]) /\ i \notin tr[1].drain.failed)
          => i \in tr[1].drain.written

\* an outcome was written after the file-system calls of an earlier one
\* failed, in a batch with an outcome that did not succeed
PerItemIndependenceReached ==
    /\ Drained
    /\ \A i \in 1..Len(Results) : ValidCustomId(Results[i].custom_id)
    /\ \E i \in 1..Len(Results) : Results[i].type # "succeeded"
    /\ \E i \in tr[1].drain.failed : \E j \in tr[1].drain.written : i < j

\* C7: when an outcome of the drained batch carries a malformed identifier,
\* every succeeded outcome with a well-formed identifier and a tool call is
\* still written and the batch is not reported as failed, wherever the
\* malformed one is.
MalformedIdIsPerItem ==
    (/\ Drained
     /\ tr[1].drain.failed = {}
     /\ \E i \in 1..Len(Results) : ~ValidCustomId(Results[i].custom_id))
    => /\ \A i \in 1..Len(Results) :
             ReachesWrite(Results[i]) => i \in tr[1].drain.written
       /\ ~InList(tr[1].errorBatchIDs, 1)

\* C8: every complete story file of the Store holds exactly 3 questions,
\* each with exactly 4 options and a correctAnswer from 0 to 3.
StoredContentSchemaValid ==
    \A p \in DOMAIN files :
        JSONParses(files[p]) => SchemaValid(JSONParse(files[p]))

\* the loop of 408 ran over the results of batch 1: they arrived, the
\* first identifier passed and the probe of the date failed
Iterated ==
    /\ Drained
    /\ Len(Results) > 0
    /\ ValidSampleCustomId(Results[1].custom_id)
    /\ SampleFilePath(BatchDate(Results[1].custom_id)) \notin tr[1].startStore

\* C9: a batch whose results were fetched and iterated is in
\* processedBatchIDs and not in errorBatchIDs, whatever became of its
\* outcomes.
DrainCompletesAsProcessed ==
    Iterated
    => /\ InList(tr[1].processedBatchIDs, 1)
       /\ ~InList(tr[1].errorBatchIDs, 1)

\* a batch was iterated and nothing of it was written: every outcome did
\* not succeed, had no tool call or a malformed identifier, or failed to be
\* written
DrainCompletesAsProcessedReached ==
    /\ Iterated
    /\ Len(Results) >= 2
    /\ tr[1].drain.written = {}
    /\ tr[1].drain.failed # {}
    /\ \E i \in 1..Len(Results) : Results[i].type # "succeeded"
    /\ InList(tr[1].processedBatchIDs, 1)

(***************************************************************************)
(* Properties of the readers.                                              *)
(***************************************************************************)
\* C10: a story file GET /:language/:level found holds a complete
\* serialization.
NoPartialFileRead == page.found => JSONParses(page.text)

(***************************************************************************)
(* Properties of the order of the steps of one request.                    *)
(***************************************************************************)
\* the story of the result is in the Store, complete
Stored(result) ==
    LET path == FilePath(ResultDirPath(result.custom_id))
    IN  path \in DOMAIN files /\ JSONParses(files[path])

\* C11: when a request is deciding which dates need a batch (it has passed
\* the drain and the in-progress check), the Store holds a complete story
\* for every succeeded outcome of every batch that had ended when the
\* request arrived.
EndedBatchesStoredAtDecision ==
    \A t \in Slots :
        tr[t].pc \in {"today", "tomorrow", "create"}
        => \A b \in tr[t].startEnded :
              \A i \in 1..Len(batches[b].results) :
                  ReachesWrite(batches[b].results[i])
                  => Stored(batches[b].results[i])

\* the step in which the create call of generateDailyStories answers
\* request t
SubmitStep(t) == tr[t].pc = "create" /\ tr'[t] # tr[t]

\* C12: the step in which generateDailyStories runs for a request adds
\* exactly one batch to the provider's, returns its id to the route while
\* the batch is in_progress and without results, and changes no other batch,
\* no file and no directory.
SubmissionDecoupled ==
    [][\A t \in Slots :
          SubmitStep(t)
          => /\ Len(batches') = Len(batches) + 1
             /\ \A b \in 1..Len(batches) : batches'[b] = batches[b]
             /\ batches'[Len(batches')].processing_status = "in_progress"
             /\ batches'[Len(batches')].results = <<>>
             /\ tr'[t].batchIds = Append(tr[t].batchIds, Len(batches'))
             /\ files' = files
             /\ dirs' = dirs]_vars

\* a request has answered with the id of a batch that is still in_progress
SubmissionDecoupledReached ==
    /\ tr[1].pc = "done"
    /\ tr[1].batchIds # <<>>
    /\ \A i \in 1..Len(tr[1].batchIds) :
          batches[tr[1].batchIds[i]].processing_status = "in_progress"
    /\ "batch_created" \in Kinds(tr[1].messages)

(***************************************************************************)
(* Properties of requests that keep arriving.                              *)
(***************************************************************************)
\* the Store holds a complete story for every language and level of the date
AllStored(dt) ==
    \A i \in 1..Len(BatchRequests(RouteLanguages, RouteLevels, dt)) :
        LET path == FilePath(ResultDirPath(
                        BatchRequests(RouteLanguages, RouteLevels, dt)[i]))
        IN  path \in DOMAIN files /\ JSONParses(files[path])

\* a request has found the date missing
FoundMissing(dt) ==
    /\ tr[1].pc = "create"
    /\ \E i \in 1..Len(tr[1].datesToGenerate) : tr[1].datesToGenerate[i] = dt

\* C13: when requests keep arriving one at a time, every batch ends with
\* every request succeeded and no call fails, a date a request has found
\* missing is eventually stored for every language and level.
AtLeastOnce ==
    \A dt \in {StartDate, Tomorrow(StartDate)} :
        FoundMissing(dt) ~> AllStored(dt)

(***************************************************************************)
(* Properties of the calls that reject.                                    *)
(***************************************************************************)
\* a provider call of the drain rejects: the list call of 340 or the results
\* call of 367-372
DrainCallFails == ListFails(1) \/ FetchFails(1)

\* processBatches goes on to return its lists with one more batch among the
\* failed ones, and nothing of the batch was written
SurfacedAsCount ==
    /\ tr[1].pc' # "done"
    /\ tr[1].status' # 500
    /\ Len(tr[1].errorBatchIDs') = Len(tr[1].errorBatchIDs) + 1
    /\ tr[1].drain.written' = {}
    /\ files' = files

\* C14: when the list call or the results call of the drain rejects, the
\* rejection is counted among the failed batches of the result that
\* processBatches returns, no exception leaves processBatches, and the
\* Store is left as it was.
TransientErrorSurfacedAsCount == [][DrainCallFails => SurfacedAsCount]_vars

\* the line of the response that reports the failure for the date
CreateFailedLine(dt) == Message("create_failed", 0, formatDate(dt))

\* what the handler does when the create call of its current date rejects:
\* nothing is submitted, the response gains the line of the date, and the
\* loop moves to the next date if there is one and answers otherwise; the
\* date is not tried again by this request
ReportsAndGoesOn(t) ==
    LET l == tr[t]
        dt == l.datesToGenerate[l.g]
    IN  /\ batches' = batches
        /\ \E i \in 1..Len(tr'[t].messages) :
               tr'[t].messages[i] = CreateFailedLine(dt)
        /\ IF l.g < Len(l.datesToGenerate)
           THEN /\ tr'[t].pc = "create"
                /\ tr'[t].datesToGenerate = l.datesToGenerate
                /\ tr'[t].g = l.g + 1
                /\ tr'[t].datesToGenerate[tr'[t].g] # dt
           ELSE /\ tr'[t].pc = "done"
                /\ tr'[t].status = 200

\* what a request decides whose predecessor reported a failure: a date of
\* that failure that is today or tomorrow for this request and still has no
\* sample file is among the dates it calls generateDailyStories for
TriesFailedDatesAgain(t) ==
    \A dt \in {tr[t].now, Tomorrow(tr[t].now)} :
        (formatDate(dt) \in tr[t].failedLast
         /\ ~checkStoriesExistForDate(files, dt))
        => /\ tr'[t].pc = "create"
           /\ \E i \in 1..Len(tr'[t].datesToGenerate) :
                 tr'[t].datesToGenerate[i] = dt

\* C15: when the create call for one date rejects, the request submits
\* nothing for that date, reports the date in its response, does not call
\* create for it again and goes on to the other missing date; and the next
\* request to reach the choice of dates, with the date still today or
\* tomorrow and its sample file still missing, calls create for it again.
CreateFailureNotRetriedButReported ==
    [][/\ CreateFails(1) => ReportsAndGoesOn(1)
       /\ TomorrowExists(1) => TriesFailedDatesAgain(1)]_vars

\* a request is calling create for a date the previous response reported as
\* failed, after a failure that did not stop the submission of the other
\* date
CreateFailureNotRetriedButReportedReached ==
    /\ tr[1].pc = "create"
    /\ formatDate(tr[1].datesToGenerate[tr[1].g]) \in tr[1].failedLast
    /\ batches # <<>>

(***************************************************************************)
(* Properties of GET /:language/:level.                                    *)
(***************************************************************************)
\* the route answers a request for a supported language and level whose
\* path of today is not in the Store
StoreMissAnswered ==
    /\ page' # page
    /\ page'.path # <<>>
    /\ page'.path \notin DOMAIN files

\* C16: a GET /:language/:level for a supported language and level with no
\* stored story for today is answered with the no-story-today page and not
\* with status 500, and it starts no batch, moves no /generate-stories
\* request and writes no file and no directory.
StoreMissIsNotAnError ==
    [][StoreMissAnswered
       => /\ page'.view = "no-story-today"
          /\ page'.status = 200
          /\ batches' = batches
          /\ tr' = tr
          /\ files' = files
          /\ dirs' = dirs]_vars

\* a reader was told that a story is not generated yet while the Store
\* holds other stories
StoreMissIsNotAnErrorReached ==
    /\ page.view = "no-story-today"
    /\ ~page.found
    /\ page.path \notin DOMAIN files
    /\ DOMAIN files # {}

(***************************************************************************)
(* The same drain, with readers who type the language and the level of     *)
(* the batch in any letter-casing.                                         *)
(***************************************************************************)
\* s with the letters at odd positions (or at even ones) in upper case
Alternate(s, odd) ==
    [i \in 1..Len(s) |-> IF (i % 2 = 1) = odd THEN UpperChar(s[i])
                                               ELSE LowerChar(s[i])]

\* letter-casings of s that show every letter in lower and in upper case
Casings(s) ==
    {toLowerCase(s), toUpperCase(s), s, Alternate(s, TRUE), Alternate(s, FALSE)}

\* a reader asks for today's story with these URL segments
GetStoryCased(language, level) ==
    /\ page' = StoryPage(files, language, level, today)
    /\ UNCHANGED <<batches, files, dirs, today, tr, invocations, ticks>>

\* the language and the level of the batch, by their places in
\* SUPPORTED_LANGUAGES and in the levels
OfBatch(i, j) ==
    batches[1].requests = <<CustomId(today, SUPPORTED_LANGUAGES[i], AllLevels[j])>>

GetStoryAnyCase ==
    \E i \in 1..Len(SUPPORTED_LANGUAGES) : \E j \in 1..Len(AllLevels) :
        /\ OfBatch(i, j)
        /\ \E language \in Casings(SUPPORTED_LANGUAGES[i]) :
           \E level \in Casings(AllLevels[j]) :
              GetStoryCased(language, level)

NextCase ==
    \/ Trigger(1)
    \/ GetStoryAnyCase

SpecCase == InitId /\ [][NextCase]_vars

(***************************************************************************)
(* generateDailyStories called for today and for tomorrow, at any hour of  *)
(* the day, for several lists of languages and of levels.  Here the        *)
(* batches carry the prompts of their requests, and today carries the      *)
(* hour.                                                                   *)
(***************************************************************************)
\* the batches these calls make at most
MaxThemeBatches == 2

\* the dates of the calls: those of IdDates whose next day has a four-digit
\* year too
ThemeDates == {dt \in IdDates : Tomorrow(dt).year < 10000}

\* hours of the day
Hours == {0, 12, 23}

\* the lists of languages and of levels the calls are made with
ThemeLanguages == {SUPPORTED_LANGUAGES, <<Spanish, English>>}

ThemeLevels == {AllLevels, <<B2, A1>>}

InitTheme ==
    /\ \E dt \in ThemeDates :
          today = [year |-> dt.year, month |-> dt.month, date |-> dt.date,
                   hours |-> 0]
    /\ batches = <<>>
    /\ files = <<>>
    /\ dirs = {}
    /\ tr = [t \in Slots |-> IdleLocal]
    /\ page = NoPage
    /\ invocations = 0
    /\ ticks = 0

\* new Date(now) with setDate(getDate() + 1): the hour stays
TomorrowSameHour(now) ==
    [year |-> Tomorrow(now).year, month |-> Tomorrow(now).month,
     date |-> Tomorrow(now).date, hours |-> now.hours]

\* generateDailyStories(languages, levels, date) up to its create call:
\* the batch of 561-593, with its prompts
GenerateDailyStories(languages, levels, date) ==
    /\ Len(batches) < MaxThemeBatches
    /\ batches' = Append(batches,
                         [processing_status |-> "in_progress",
                          requests |-> BatchRequests(languages, levels, date),
                          results |-> <<>>,
                          prompts |-> BatchPrompts(languages, levels, date)])
    /\ UNCHANGED <<files, dirs, today, tr, page, invocations, ticks>>

\* the day goes on
Clock ==
    /\ \E h \in Hours : h > today.hours /\ today' = [today EXCEPT !.hours = h]
    /\ UNCHANGED <<batches, files, dirs, tr, page, invocations, ticks>>

NextTheme ==
    \/ \E languages \in ThemeLanguages : \E levels \in ThemeLevels :
          \E date \in {today, TomorrowSameHour(today)} :
             GenerateDailyStories(languages, levels, date)
    \/ Clock

SpecTheme == InitTheme /\ [][NextTheme]_vars

(***************************************************************************)
(* The same calls with Math.sin left open: x - Math.floor(x) is a double   *)
(* from 0 to 1, and it is 1 when x is negative and closer to 0 than half   *)
(* an ulp of 1.  An Invalid Date gives NaN whatever Math.sin does.         *)
(***************************************************************************)
\* values of x - Math.floor(x), in millionths
Fractions == {0, 500000, 999999, 1000000}

\* the prompts generateDailyStories builds when seededRandom returns these
\* two values for a valid date
PromptsOfRandoms(languages, levels, date, earlyRandom, intermediateRandom) ==
    LET themes == IF DateSeed(date) = NaN THEN ThemesOfRandoms(NaN, NaN)
                  ELSE ThemesOfRandoms(earlyRandom, intermediateRandom)
    IN  [n \in 1..(Len(languages) * Len(levels)) |->
            LET language == languages[((n - 1) \div Len(levels)) + 1]
                level == levels[((n - 1) % Len(levels)) + 1]
            IN  getPrompt(language, level, ThemeOfLevel(themes, level))]

GenerateWithRandoms(date, earlyRandom, intermediateRandom) ==
    /\ Len(batches) < MaxThemeBatches
    /\ batches' = Append(batches,
                         [processing_status |-> "in_progress",
                          requests |-> BatchRequests(<<Spanish, English>>,
                                                     <<B2, A1>>, date),
                          results |-> <<>>,
                          prompts |-> PromptsOfRandoms(<<Spanish, English>>,
                                                       <<B2, A1>>, date,
                                                       earlyRandom,
                                                       intermediateRandom)])
    /\ UNCHANGED <<files, dirs, today, tr, page, invocations, ticks>>

NextGuard ==
    \E date \in {today, InvalidDate} :
    \E earlyRandom \in Fractions : \E intermediateRandom \in Fractions :
        GenerateWithRandoms(date, earlyRandom, intermediateRandom)

SpecGuard == InitTheme /\ [][NextGuard]_vars

(***************************************************************************)
(* The tools of a batch and the tool calls the provider may answer with:   *)
(* with tool_choice naming create_story, a reply to request n carries an   *)
(* input that the input_schema of the request's tool admits.               *)
(***************************************************************************)
MaxToolCalls == 1

\* tool inputs near the limits of the schema: one question of the input
\* differs from Question(4, 0) in its options or in its answer
ToolInputs ==
    { [messages |-> messages,
       questions |-> [i \in 1..count |->
                        IF i = k THEN Question(options, twice)
                        ELSE Question(4, 0)]] :
        messages \in {9, 10, 12}, count \in 2..4, k \in 1..2,
        options \in 3..5, twice \in {-1, 0, 3, 6, 7} }

GenerateWithTools(languages, levels, date) ==
    /\ batches = <<>>
    /\ batches' = Append(batches,
                         [processing_status |-> "in_progress",
                          requests |-> BatchRequests(languages, levels, date),
                          results |-> <<>>,
                          prompts |-> BatchPrompts(languages, levels, date),
                          tools |-> BatchTools(languages, levels)])
    /\ UNCHANGED <<files, dirs, today, tr, page, invocations, ticks>>

ProviderCallsTool(b, n, input) ==
    /\ b \in 1..Len(batches)
    /\ n \in 1..Len(batches[b].requests)
    /\ Len(batches[b].results) < MaxToolCalls
    /\ ValidInput(batches[b].tools[n].input_schema, input)
    /\ batches' = [batches EXCEPT ![b].results =
                        Append(@, [custom_id |-> batches[b].requests[n],
                                   request |-> n, input |-> input])]
    /\ UNCHANGED <<files, dirs, today, tr, page, invocations, ticks>>

NextTool ==
    \/ GenerateWithTools(<<Spanish, English>>, AllLevels, today)
    \/ \E n \in 1..(2 * Len(AllLevels)) : \E input \in ToolInputs :
          ProviderCallsTool(1, n, input)

SpecTool == InitTheme /\ [][NextTool]_vars

(***************************************************************************)
(* cleanJsonString of util.ts, on texts written as sequences of            *)
(* characters.  \s is the space and the line feed; the backtick and the   *)
(* low and reversed quotation marks are written by their code points, and  *)
(* FENCE stands for three backticks.                                       *)
(***************************************************************************)
Fence == <<"U+0060", "U+0060", "U+0060">>

IsSpace(c) == c \in {" ", "\n"}

\* the text has w at position p
HasAt(text, p, w) ==
    /\ p + Len(w) - 1 <= Len(text)
    /\ SubSeq(text, p, p + Len(w) - 1) = w

\* the end of a greedy \s* from p: the first position that holds no space
RECURSIVE SkipSpace(_, _)
SkipSpace(text, p) ==
    IF p <= Len(text) /\ IsSpace(text[p]) THEN SkipSpace(text, p + 1) ELSE p

\* String.prototype.trim
RECURSIVE trimEnd(_)
trimEnd(text) ==
    IF text # <<>> /\ IsSpace(text[Len(text)])
    THEN trimEnd(SubSeq(text, 1, Len(text) - 1)) ELSE text

trim(text) == trimEnd(SubSeq(text, SkipSpace(text, 1), Len(text)))

\* the anchors under the flag m, before the character at p
AtLineStart(text, p) == p = 1 \/ text[p - 1] = "\n"

AtLineEnd(text, p) == p = Len(text) + 1 \/ text[p] = "\n"

\* where \s*$ under the flag m ends from p: the greedy run of spaces, given
\* back to the last place at which a line ends; 0 when there is none
SpaceToLineEnd(text, p) ==
    LET ends == {k \in p..SkipSpace(text, p) : AtLineEnd(text, k)}
    IN  IF ends = {} THEN 0
        ELSE CHOOSE k \in ends : \A j \in ends : j <= k

\* where a match of /^FENCE(?:json)?\s*\n?/m that begins at p ends, 0 if none
OpenFenceEnd(text, p) ==
    IF AtLineStart(text, p) /\ HasAt(text, p, Fence)
    THEN SkipSpace(text, IF HasAt(text, p + 3, <<"j", "s", "o", "n">>)
                         THEN p + 7 ELSE p + 3)
    ELSE 0

\* where a match of /\n?FENCE\s*$/m that begins at p ends, 0 if none
CloseFenceEnd(text, p) ==
    LET q == IF p <= Len(text) /\ text[p] = "\n" THEN p + 1 ELSE p
    IN  IF HasAt(text, q, Fence) THEN SpaceToLineEnd(text, q + 3) ELSE 0

\* cleaned.replace(/^FENCE(?:json)?\s*\n?/gim, ''), from position p on
RECURSIVE RemoveOpenFences(_, _)
RemoveOpenFences(text, p) ==
    IF p > Len(text) THEN <<>>
    ELSE IF OpenFenceEnd(text, p) # 0
         THEN RemoveOpenFences(text, OpenFenceEnd(text, p))
         ELSE <<text[p]>> \o RemoveOpenFences(text, p + 1)

\* cleaned.replace(/\n?FENCE\s*$/gim, ''), from position p on
RECURSIVE RemoveCloseFences(_, _)
RemoveCloseFences(text, p) ==
    IF p > Len(text) THEN <<>>
    ELSE IF CloseFenceEnd(text, p) # 0
         THEN RemoveCloseFences(text, CloseFenceEnd(text, p))
         ELSE <<text[p]>> \o RemoveCloseFences(text, p + 1)

\* \nFENCE\s*$ matches at d
ClosesAt(text, d) ==
    /\ HasAt(text, d, <<"\n">> \o Fence)
    /\ SpaceToLineEnd(text, d + 4) # 0

\* capture 1 of /^FENCE(?:json)?\s*\n([\s\S]*?)\nFENCE\s*$/m for a match that
\* begins at p, as <<first, last + 1>>; <<>> when nothing matches at p.
\* The greedy \s* gives back down to a line feed, the capture is the
\* shortest that a closing fence follows.
FenceCapture(text, p) ==
    IF ~(AtLineStart(text, p) /\ HasAt(text, p, Fence)) THEN <<>>
    ELSE LET q == IF HasAt(text, p + 3, <<"j", "s", "o", "n">>)
                  THEN p + 7 ELSE p + 3
             feeds == {k \in q..(SkipSpace(text, q) - 1) :
                          /\ text[k] = "\n"
                          /\ \E d \in (k + 1)..Len(text) : ClosesAt(text, d)}
         IN  IF feeds = {} THEN <<>>
             ELSE LET k == CHOOSE f \in feeds : \A j \in feeds : j <= f
                      d == CHOOSE c \in (k + 1)..Len(text) :
                              /\ ClosesAt(text, c)
                              /\ \A j \in (k + 1)..(c - 1) : ~ClosesAt(text, j)
                  IN  <<k + 1, d>>

\* lines 391-394: the text between the first pair of fences, when there is
\* a pair and the text between them is not empty
StripFencePair(text) ==
    LET starts == {p \in 1..Len(text) : FenceCapture(text, p) # <<>>}
    IN  IF starts = {} THEN text
        ELSE LET p == CHOOSE s \in starts : \A j \in starts : s <= j
                 markdownMatch == FenceCapture(text, p)
             IN  IF markdownMatch[1] < markdownMatch[2]
                 THEN SubSeq(text, markdownMatch[1], markdownMatch[2] - 1)
                 ELSE text

\* lines 402-403
StraightQuotes(text) ==
    [i \in 1..Len(text) |->
        IF text[i] \in {"\"", "U+201E", "U+201F"} THEN "\""
        ELSE IF text[i] \in {"'", "U+201A", "U+201B"} THEN "'"
        ELSE text[i]]

\* cleaned.split('\n')
RECURSIVE SplitLines(_, _)
SplitLines(text, line) ==
    IF text = <<>> THEN <<line>>
    ELSE IF Head(text) = "\n" THEN <<line>> \o SplitLines(Tail(text), <<>>)
    ELSE SplitLines(Tail(text), Append(line, Head(text)))

\* lines.join('\n')
RECURSIVE JoinLines(_)
JoinLines(lines) ==
    IF Len(lines) = 1 THEN lines[1]
    ELSE lines[1] \o <<"\n">> \o JoinLines(Tail(lines))

\* /^\s*[{}\[\],]?\s*$/.test(line)
IsStructural(line) ==
    LET a == SkipSpace(line, 1)
        b == IF a <= Len(line) /\ line[a] \in {"{", "}", "[", "]", ","}
             THEN a + 1 ELSE a
    IN  SkipSpace(line, b) = Len(line) + 1

\* the first position from p that holds a quote, Len(line) + 1 if none
RECURSIVE NextQuote(_, _)
NextQuote(line, p) ==
    IF p <= Len(line) /\ line[p] # "\"" THEN NextQuote(line, p + 1) ELSE p

\* the end of match[1], (\s*"[^"]+"\s*:\s*"), 0 when the line does not
\* begin with it
PrefixEnd(line) ==
    LET a == SkipSpace(line, 1)
        b == NextQuote(line, a + 1)
        c == SkipSpace(line, b + 1)
        d == SkipSpace(line, c + 1)
    IN  IF /\ a <= Len(line) /\ line[a] = "\""
           /\ b <= Len(line) /\ b > a + 1
           /\ c <= Len(line) /\ line[c] = ":"
           /\ d <= Len(line) /\ line[d] = "\""
        THEN d ELSE 0

\* (",?\s*)$ matches from k to the end of the line
SuffixAt(line, k) ==
    /\ k <= Len(line) /\ line[k] = "\""
    /\ SkipSpace(line, IF k + 1 <= Len(line) /\ line[k + 1] = ","
                       THEN k + 2 ELSE k + 1) = Len(line) + 1

\* the loop of 427-441 over content, from index i
RECURSIVE EscapeQuotes(_, _)
EscapeQuotes(content, i) ==
    IF i > Len(content) THEN <<>>
    ELSE IF content[i] = "\\" /\ i + 1 <= Len(content)
         THEN <<content[i], content[i + 1]>> \o EscapeQuotes(content, i + 2)
    ELSE IF content[i] = "\""
         THEN <<"\\", "\"">> \o EscapeQuotes(content, i + 1)
    ELSE <<content[i]>> \o EscapeQuotes(content, i + 1)

\* the function given to lines.map, 409-444
FixLine(line) ==
    IF IsStructural(line) THEN line
    ELSE LET d == PrefixEnd(line)
             suffixes == {k \in (d + 1)..Len(line) : SuffixAt(line, k)}
         IN  IF d = 0 \/ suffixes = {} THEN line
             ELSE LET k == CHOOSE s \in suffixes : \A j \in suffixes : s <= j
                      prefix == SubSeq(line, 1, d)
                      content == SubSeq(line, d + 1, k - 1)
                      suffix == SubSeq(line, k, Len(line))
                  IN  IF content = <<>> THEN line
                      ELSE prefix \o EscapeQuotes(content, 1) \o suffix

\* cleaned.replace(/,\s*([}\]])/g, '$1'), from position p on
RECURSIVE RemoveTrailingCommas(_, _)
RemoveTrailingCommas(text, p) ==
    IF p > Len(text) THEN <<>>
    ELSE LET e == SkipSpace(text, p + 1)
         IN  IF text[p] = "," /\ e <= Len(text) /\ text[e] \in {"}", "]"}
             THEN <<text[e]>> \o RemoveTrailingCommas(text, e + 1)
             ELSE <<text[p]>> \o RemoveTrailingCommas(text, p + 1)

\* cleanJsonString, 386-451 of util.ts
cleanJsonString(string) ==
    LET trimmed == trim(string)
        unfenced == RemoveCloseFences(
                        RemoveOpenFences(StripFencePair(trimmed), 1), 1)
        quoted == StraightQuotes(unfenced)
        lines == SplitLines(quoted, <<>>)
        fixed == JoinLines([i \in 1..Len(lines) |-> FixLine(lines[i])])
    IN  trim(RemoveTrailingCommas(fixed, 1))

\* the longest response text, in pieces
MaxPieces == 4

\* pieces of response text: fences, line feeds, a property name with the
\* opening quote of its value, quotes, commas, a closing brace
Pieces ==
    {Fence, Fence \o <<"j", "s", "o", "n", "\n">>, <<"\n">> \o Fence,
     <<"\n">>, <<" ">>, <<"\"", "a", "\"", ":", " ", "\"">>, <<"\"">>,
     <<"U+201E">>, <<",">>, <<"}">>, <<"\\">>, <<"x">>}

RECURSIVE Texts(_)
Texts(n) ==
    IF n = 0 THEN {<<>>}
    ELSE LET shorter == Texts(n - 1)
         IN  shorter \cup {t \o piece : t \in shorter, piece \in Pieces}

\* generateStory of util.ts up to its JSON.parse: the provider's response
\* text is in hand
InitClean ==
    /\ \E responseText \in Texts(MaxPieces) :
          tr = [t \in Slots |->
                  IF t = 1 THEN [pc |-> "response",
                                 responseText |-> responseText,
                                 cleanedResponse |-> <<>>]
                  ELSE IdleLocal]
    /\ today = StartDate
    /\ batches = <<>>
    /\ files = <<>>
    /\ dirs = {}
    /\ page = NoPage
    /\ invocations = 0
    /\ ticks = 0

\* const cleanedResponse = cleanJsonString(responseText), 478
CleanResponse ==
    /\ tr[1].pc = "response"
    /\ tr' = [tr EXCEPT ![1].pc = "cleaned",
                        ![1].cleanedResponse = cleanJsonString(tr[1].responseText)]
    /\ UNCHANGED <<batches, files, dirs, today, page, invocations, ticks>>

NextClean == CleanResponse

SpecClean == InitClean /\ [][NextClean]_vars

(***************************************************************************)
(* The revision of index.ts with the isGeneratingStories flag (part_001)   *)
(* and the generateDailyStories of util.ts it calls, which waits for its   *)
(* batch.  In the specifications of this revision tr is the memory of the  *)
(* process: the flag, the locals of the requests being handled, and the    *)
(* calls of generateDailyStories that were made.                           *)
(***************************************************************************)
isGeneratingStories == tr.isGeneratingStories

IdleHandler ==
    [pc |-> "idle", now |-> InvalidDate, todayExists |-> FALSE,
     runsAtArrival |-> 0]

\* a call of generateDailyStories that has not returned nor thrown
InProgress(run) == run.pc \in {"create", "poll"}

\* generateDailyStories(languages, [...EARLY_LEVELS,
\* ...INTERMEDIATE_LEVELS], date) is called: it runs to its first await,
\* the create call of 520.  group is the Promise.all it belongs to, 0 for
\* the call of the cron job.
CallGenerate(date, group) ==
    [date |-> date, group |-> group, pc |-> "create", batch |-> 0]

\* the languages of the calls in the specifications of this revision: the
\* first two of SUPPORTED_LANGUAGES, the first being that of the sample file
LegacyLanguages == SubSeq(SUPPORTED_LANGUAGES, 1, 2)

\* the requests of util.ts 501-521
LegacyRequests(languages, levels) ==
    [n \in 1..(Len(languages) * Len(levels)) |->
        LegacyCustomId(languages[((n - 1) \div Len(levels)) + 1],
                       levels[((n - 1) % Len(levels)) + 1])]

\* onTick of the cron job, part_001 21-34, at midnight: no look at the flag
OnTick ==
    /\ ticks < MaxTicks
    /\ ticks' = ticks + 1
    /\ today' = Tomorrow(today)
    /\ tr' = [tr EXCEPT !.runs = Append(@, CallGenerate(Tomorrow(Tomorrow(today)), 0))]
    /\ UNCHANGED <<batches, files, dirs, page, invocations>>

\* the requests this revision gets
MaxFlagRequests == 2

\* part_001 46-98: the request arrives; with the flag up it is answered at
\* once, otherwise the handler awaits the first checkStoriesExist
FlagStart(t) ==
    /\ tr.handlers[t].pc = "idle"
    /\ invocations < MaxFlagRequests
    /\ invocations' = invocations + 1
    /\ IF isGeneratingStories
       THEN /\ page' = [NoPage EXCEPT !.status = 200, !.view = "in_progress"]
            /\ tr' = tr
       ELSE /\ page' = page
            /\ tr' = [tr EXCEPT !.handlers[t] =
                        [IdleHandler EXCEPT !.pc = "today", !.now = today]]
    /\ UNCHANGED <<batches, files, dirs, today, ticks>>

\* the same step, recording how many calls of generateDailyStories had
\* been made when the request arrived
FlagStartObserved(t) ==
    /\ tr.handlers[t].pc = "idle"
    /\ invocations < MaxFlagRequests
    /\ invocations' = invocations + 1
    /\ IF isGeneratingStories
       THEN /\ page' = [NoPage EXCEPT !.status = 200, !.view = "in_progress"]
            /\ tr' = tr
       ELSE /\ page' = page
            /\ tr' = [tr EXCEPT !.handlers[t] =
                        [IdleHandler EXCEPT !.pc = "today", !.now = today,
                                            !.runsAtArrival = Len(tr.runs)]]
    /\ UNCHANGED <<batches, files, dirs, today, ticks>>

\* part_001 98: const todayExists = await checkStoriesExist(now)
FlagTodayExists(t) ==
    /\ tr.handlers[t].pc = "today"
    /\ tr' = [tr EXCEPT !.handlers[t].pc = "tomorrow",
                        !.handlers[t].todayExists =
                            checkStoriesExistForDate(files, tr.handlers[t].now)]
    /\ UNCHANGED <<batches, files, dirs, today, page, invocations, ticks>>

\* part_001 99-139: the second check answers; with nothing missing the
\* request is answered, otherwise the flag goes up and Promise.all calls
\* generateDailyStories for every missing date before the handler returns
FlagDecide(t) ==
    /\ tr.handlers[t].pc = "tomorrow"
    /\ LET now == tr.handlers[t].now
           tomorrow == Tomorrow(now)
           tomorrowExists == checkStoriesExistForDate(files, tomorrow)
           datesToGenerate ==
               (IF tr.handlers[t].todayExists THEN <<>> ELSE <<now>>)
               \o (IF tomorrowExists THEN <<>> ELSE <<tomorrow>>)
           group == 1 + Len(tr.runs)
       IN  IF datesToGenerate = <<>>
           THEN /\ page' = [NoPage EXCEPT !.status = 200, !.view = "exist"]
                /\ tr' = [tr EXCEPT !.handlers[t] = IdleHandler]
           ELSE /\ page' = [NoPage EXCEPT !.status = 200, !.view = "starting"]
                /\ tr' = [tr EXCEPT
                            !.isGeneratingStories = TRUE,
                            !.handlers[t] = IdleHandler,
                            !.runs = @ \o [i \in 1..Len(datesToGenerate) |->
                                        CallGenerate(datesToGenerate[i], group)]]
    /\ UNCHANGED <<batches, files, dirs, today, invocations, ticks>>

\* a route without the catch of 136-139: only the then lowers the flag
FlagAfterThenOnly(runs, i) ==
    LET group == {j \in 1..Len(runs) : runs[j].group = runs[i].group}
    IN  IF runs[i].group = 0 THEN isGeneratingStories
        ELSE IF runs[i].pc = "returned"
                /\ \A j \in group : runs[j].pc = "returned" THEN FALSE
        ELSE isGeneratingStories

\* the flag after call i has settled as pc: the then of part_001 132-135
\* runs when every call of the Promise.all has returned, the catch of
\* 136-139 when the first of them throws; the cron job's call touches
\* nothing
FlagAfter(runs, i) ==
    LET group == {j \in 1..Len(runs) : runs[j].group = runs[i].group}
    IN  IF runs[i].group = 0 THEN isGeneratingStories
        ELSE IF runs[i].pc = "returned"
                /\ \A j \in group : runs[j].pc = "returned" THEN FALSE
        ELSE IF runs[i].pc = "thrown"
                /\ \A j \in group \ {i} : runs[j].pc # "thrown" THEN FALSE
        ELSE isGeneratingStories

\* call i settles as pc
Settle(i, pc) ==
    LET runs == [tr.runs EXCEPT ![i].pc = pc]
    IN  [tr EXCEPT !.runs = runs, !.isGeneratingStories = FlagAfter(runs, i)]

\* the batches the provider takes from this revision
MaxLegacyBatches == 2

\* util.ts 526-528: the create call resolves with a new batch
LegacyCreate(i) ==
    /\ tr.runs[i].pc = "create"
    /\ Len(batches) < MaxLegacyBatches
    /\ batches' = Append(batches,
                         [processing_status |-> "in_progress",
                          requests |-> LegacyRequests(LegacyLanguages, AllLevels),
                          results |-> <<>>])
    /\ tr' = [tr EXCEPT !.runs[i].pc = "poll", !.runs[i].batch = Len(batches) + 1]
    /\ UNCHANGED <<files, dirs, today, page, invocations, ticks>>

\* the create call rejects and generateDailyStories throws
LegacyCreateFails(i) ==
    /\ tr.runs[i].pc = "create"
    /\ tr' = Settle(i, "thrown")
    /\ UNCHANGED <<batches, files, dirs, today, page, invocations, ticks>>

\* the batch ends: every request got a text that is the JSON of a story
LegacyEnds(b) ==
    /\ b \in 1..Len(batches)
    /\ batches[b].processing_status \in {"in_progress", "canceling"}
    /\ batches' = [batches EXCEPT
          ![b].processing_status = "ended",
          ![b].results = [n \in 1..Len(batches[b].requests) |->
                             Outcome(batches[b].requests[n], "succeeded",
                                     <<[type |-> "text",
                                        text |-> JSONStringify(GoodStory(b))]>>)]]
    /\ UNCHANGED <<files, dirs, today, tr, page, invocations, ticks>>

\* the files of util.ts 548-600 for the results of a batch: the response
\* texts of this revision's specifications are clean JSON already
LegacyFiles(fs, date, results) ==
    LET paths == [n \in 1..Len(results) |->
                    LET parts == split(results[n].custom_id, "-")
                    IN  FilePath(DirPath(YearString(date), MonthString(date),
                                         DayString(date),
                                         At(parts, 0), At(parts, 1)))]
        written == {n \in 1..Len(results) :
                       /\ results[n].type = "succeeded"
                       /\ JSONParses(results[n].content[1].text)}
        last == [q \in {paths[n] : n \in written} |->
                    CHOOSE m \in written :
                        /\ paths[m] = q
                        /\ \A k \in written : paths[k] = q => k <= m]
    IN  [q \in (DOMAIN fs) \cup DOMAIN last |->
            IF q \in DOMAIN last
            THEN JSONStringify(JSONParse(results[last[q]].content[1].text))
            ELSE fs[q]]

\* a call that goes on to the results whatever status ended the loop
LegacyPollOverIgnoresCancel(i) ==
    /\ i \in 1..Len(tr.runs)
    /\ tr.runs[i].pc = "poll"
    /\ LET completedBatch == batches[tr.runs[i].batch]
       IN  /\ completedBatch.processing_status # "in_progress"
           /\ tr' = Settle(i, "returned")
           /\ files' = LegacyFiles(files, tr.runs[i].date,
                                   completedBatch.results)
           /\ dirs' = dirs \cup
                {SubSeq(p, 1, Len(p) - 1) : p \in DOMAIN files'}
    /\ UNCHANGED <<batches, today, page, invocations, ticks>>

\* a polling loop that gives up while the batch is in progress
LegacyPollTimesOut(i) ==
    /\ i \in 1..Len(tr.runs)
    /\ tr.runs[i].pc = "poll"
    /\ tr' = Settle(i, "thrown")
    /\ UNCHANGED <<batches, files, dirs, today, page, invocations, ticks>>

\* util.ts 534-539 and on: a retrieve of the polling loop answers with a
\* status other than in_progress.  (While the status is in_progress the
\* loop sleeps 5 seconds and retrieves again, which changes nothing.)
\* A canceling batch makes the call throw, 541-543; otherwise the results
\* are read and written, 548-601, and the call returns.
LegacyPollOver(i) ==
    /\ i \in 1..Len(tr.runs)
    /\ tr.runs[i].pc = "poll"
    /\ LET completedBatch == batches[tr.runs[i].batch]
       IN  /\ completedBatch.processing_status # "in_progress"
           /\ IF completedBatch.processing_status = "canceling"
              THEN /\ tr' = Settle(i, "thrown")
                   /\ UNCHANGED <<files, dirs>>
              ELSE /\ tr' = Settle(i, "returned")
                   /\ files' = LegacyFiles(files, tr.runs[i].date,
                                           completedBatch.results)
                   /\ dirs' = dirs \cup
                        {SubSeq(p, 1, Len(p) - 1) : p \in DOMAIN files'}
    /\ UNCHANGED <<batches, today, page, invocations, ticks>>

InitFlag ==
    /\ today = StartDate
    /\ batches = <<>>
    /\ files = <<>>
    /\ dirs = {}
    /\ tr = [isGeneratingStories |-> FALSE,
             handlers |-> [t \in Slots |-> IdleHandler],
             runs |-> <<>>]
    /\ page = NoPage
    /\ invocations = 0
    /\ ticks = 0

NextFlag ==
    \/ \E t \in Slots : FlagStart(t) \/ FlagTodayExists(t) \/ FlagDecide(t)
    \/ OnTick
    \/ \E i \in 1..Len(tr.runs) :
          LegacyCreate(i) \/ LegacyCreateFails(i) \/ LegacyPollOver(i)
    \/ \E b \in 1..Len(batches) : LegacyEnds(b)

SpecFlag == InitFlag /\ [][NextFlag]_vars

\* the calls of generateDailyStories the bounds allow
Calls == 1..(2 * MaxFlagRequests + MaxTicks)

\* One request at a time and the cron job, every call of the provider
\* answering.  The event loop runs a continuation whose await has
\* answered and a retrieve of the polling loop always answers: weak
\* fairness of the step that leaves the loop.  Nothing is assumed of the
\* provider's batches.
NextPoll ==
    \/ FlagStart(1) \/ FlagTodayExists(1) \/ FlagDecide(1)
    \/ OnTick
    \/ \E i \in 1..Len(tr.runs) : LegacyCreate(i) \/ LegacyPollOver(i)
    \/ \E b \in 1..Len(batches) : LegacyEnds(b) \/ ProviderCancels(b)

\* a retrieve of call i has a status other than in_progress to answer with
PollReady(i) ==
    /\ i \in 1..Len(tr.runs)
    /\ tr.runs[i].pc = "poll"
    /\ batches[tr.runs[i].batch].processing_status # "in_progress"

\* WF_vars(LegacyPollOver(i)) with its enabling condition written as
\* PollReady(i)
PollGoesOn(i) == []<>(~PollReady(i)) \/ []<><<LegacyPollOver(i)>>_vars

FairPoll == \A i \in Calls : PollGoesOn(i)

SpecPoll == InitFlag /\ [][NextPoll]_vars /\ FairPoll

(***************************************************************************)
(* The flag revision with a provider that answers: every create call       *)
(* resolves or rejects, every batch comes to a status other than           *)
(* in_progress, and the event loop runs the continuation of an await that  *)
(* has answered.  Each is weak fairness of the step, written with its      *)
(* enabling condition.  The cron job, which neither reads nor writes the   *)
(* flag, is left out.                                                      *)
(***************************************************************************)
NextLock ==
    \/ \E t \in Slots :
          FlagStartObserved(t) \/ FlagTodayExists(t) \/ FlagDecide(t)
    \/ \E i \in 1..Len(tr.runs) :
          LegacyCreate(i) \/ LegacyCreateFails(i) \/ LegacyPollOver(i)
    \/ \E b \in 1..Len(batches) : LegacyEnds(b) \/ ProviderCancels(b)

\* call i waits for the answer of its create call
CreateReady(i) == i \in 1..Len(tr.runs) /\ tr.runs[i].pc = "create"

\* the create call of call i answers, one way or the other
CreateAnswers(i) ==
    []<>(~CreateReady(i))
    \/ []<><<LegacyCreate(i) \/ LegacyCreateFails(i)>>_vars

\* the provider has not yet ended batch b
EndsReady(b) ==
    /\ b \in 1..Len(batches)
    /\ batches[b].processing_status \in {"in_progress", "canceling"}

\* batch b comes to an end
BatchEnds(b) == []<>(~EndsReady(b)) \/ []<><<LegacyEnds(b)>>_vars

FairLock ==
    /\ \A i \in Calls : CreateAnswers(i) /\ PollGoesOn(i)
    /\ \A b \in 1..MaxLegacyBatches : BatchEnds(b)

SpecLock == InitFlag /\ [][NextLock]_vars /\ FairLock

(***************************************************************************)
(* The waiting generateDailyStories under requests handled one at a time,  *)
(* with batches that end or are canceled.                                  *)
(***************************************************************************)
NextWait ==
    \/ FlagStart(1) \/ FlagTodayExists(1) \/ FlagDecide(1)
    \/ \E i \in 1..Len(tr.runs) : LegacyCreate(i) \/ LegacyPollOver(i)
    \/ \E b \in 1..Len(batches) : LegacyEnds(b) \/ ProviderCancels(b)

SpecWait == InitFlag /\ [][NextWait]_vars

(***************************************************************************)
(* One request on a provider account that already holds batches of every   *)
(* kind: in progress, canceling, ended with and without results.           *)
(***************************************************************************)
\* the batches an account may hold when a request arrives
PageBatches ==
    LET english == CustomId(StartDate, English, A1)
        spanish == CustomId(StartDate, Spanish, A1)
    IN  { NewBatch(<<English>>, <<A1>>, StartDate),
          [NewBatch(<<English>>, <<A1>>, StartDate)
               EXCEPT !.processing_status = "canceling"],
          EndedBatch(<<>>),
          EndedBatch(<<Outcome(english, "succeeded",
                               <<ToolUseBlock(GoodStory(1))>>)>>),
          EndedBatch(<<Outcome(spanish, "succeeded",
                               <<ToolUseBlock(GoodStory(2))>>),
                       Outcome(english, "expired", <<>>)>>),
          EndedBatch(<<Outcome(LegacyCustomId(Spanish, A1), "succeeded",
                               <<ToolUseBlock(GoodStory(3))>>)>>) }

InitPage ==
    /\ \E n \in 1..MaxBatches : batches \in [1..n -> PageBatches]
    /\ files \in {<<>>, WriteAt(<<>>, SampleFilePath(StartDate), <<>>)}
    /\ dirs = {}
    /\ today = StartDate
    /\ tr = [t \in Slots |-> IdleLocal]
    /\ page = NoPage
    /\ invocations = MaxInvocations - 1
    /\ ticks = 0

NextPage ==
    \/ Trigger(1)
    \/ ApiFault(1)
    \/ IoFault(1)

SpecPage == InitPage /\ [][NextPage]_vars

(***************************************************************************)
(* Two requests on one ended batch, one after the other or interleaved at  *)
(* their awaits, every call answering.                                     *)
(***************************************************************************)
InitTwice ==
    /\ \E n \in 0..(MaxOutcomes - 1) : \E results \in [1..n -> OutcomePool] :
          batches = <<EndedBatch(results)>>
    /\ files = <<>>
    /\ dirs = {}
    /\ today = StartDate
    /\ tr = [t \in Slots |-> IdleLocal]
    /\ page = NoPage
    /\ invocations = MaxInvocations - 2
    /\ ticks = 0

NextTwice ==
    \/ Trigger(1)
    \/ Trigger(2)

SpecTwice == InitTwice /\ [][NextTwice]_vars

(***************************************************************************)
(* The server process stops and starts again (part_000 14-18, 271).  The   *)
(* module keeps no state of its own beside the service and the app, and    *)
(* the service keeps only its client (storyService.ts 293-297): what a     *)
(* new process has is the provider's batches and the files.                *)
(***************************************************************************)
\* the process ends, with whatever its handlers were doing, and a new one
\* starts: no handler is running and nothing is remembered
Restart ==
    /\ \E t \in Slots : tr[t].pc # "idle"
    /\ tr' = [t \in Slots |-> IdleLocal]
    /\ UNCHANGED <<batches, files, dirs, today, page, invocations, ticks>>

\* the request arrives; it is recorded whether it is the first one its
\* process handles
StartOfProcess(t) ==
    /\ tr[t].pc \in {"idle", "done"}
    /\ invocations < MaxInvocations
    /\ invocations' = invocations + 1
    /\ tr' = [tr EXCEPT ![t] = [IdleLocal EXCEPT
                  !.pc = "list",
                  !.startStore = DOMAIN files,
                  !.firstOfProcess = (tr[t].pc = "idle")]]
    /\ UNCHANGED <<batches, files, dirs, today, page, ticks>>

NextRestart ==
    \/ StartOfProcess(1)
    \/ Steps(1)
    \/ \E b \in 1..Len(batches) : ProviderEnds(b)
    \/ Restart

SpecRestart == Init /\ [][NextRestart]_vars

(***************************************************************************)
(* What one drain of one ended batch leaves, as a function of the order    *)
(* of its results: processBatches 366-487 with every call answering.       *)
(***************************************************************************)
RECURSIVE WriteResults(_, _, _)
\* the loop of 407-485 from index i on: each result that reaches writeFile
\* (460-464) is written at the path of its own custom_id, in order
WriteResults(fs, allResults, i) ==
    IF i > Len(allResults) THEN fs
    ELSE IF ReachesWrite(allResults[i])
         THEN WriteResults(
                  WriteAt(fs, FilePath(ResultDirPath(allResults[i].custom_id)),
                          JSONStringify(ToolUseInput(allResults[i].content))),
                  allResults, i + 1)
         ELSE WriteResults(fs, allResults, i + 1)

\* the files and the two lists after lines 366-494 for batch b
DrainOf(fs, b, allResults) ==
    IF Len(allResults) = 0
    THEN [files |-> fs, processedBatchIDs |-> <<>>, errorBatchIDs |-> <<>>]
    ELSE IF ~ValidSampleCustomId(allResults[1].custom_id)
    THEN [files |-> fs, processedBatchIDs |-> <<>>, errorBatchIDs |-> <<b>>]
    ELSE IF checkStoriesExistForDate(fs, BatchDate(allResults[1].custom_id))
    THEN [files |-> fs, processedBatchIDs |-> <<>>, errorBatchIDs |-> <<>>]
    ELSE [files |-> WriteResults(fs, allResults, 1),
          processedBatchIDs |-> <<b>>, errorBatchIDs |-> <<>>]

\* one request on one ended batch, every call answering
NextOutcomes == Trigger(1)

SpecOutcomes == InitDrain /\ [][NextOutcomes]_vars

(***************************************************************************)
(* Properties of the identifiers and the paths.                            *)
(***************************************************************************)
\* the decimal digits of n, as many as width
RECURSIVE Digits(_, _)
Digits(n, width) ==
    IF width = 0 THEN <<>>
    ELSE Append(Digits(n \div 10, width - 1), DigitChars[(n % 10) + 1])

\* stories/<YYYY>/<MM>/<DD>/<language>/<level>/story.json
StoryPathOf(dt, language, level) ==
    <<STORIES, Digits(dt.year, 4), Digits(dt.month + 1, 2), Digits(dt.date, 2),
      toLowerCase(language), toLowerCase(level), STORY_JSON>>

\* processBatches has returned
DrainOver == tr[1].pc \in {"check", "today", "tomorrow", "create", "done"}

\* C17: for every supported language, every level and every date with a
\* four-digit year, the custom_id generateDailyStories builds is read by the
\* drain as the same date, the lower-cased language and the lower-cased
\* level, and when the drain is over the one file of the Store is
\* stories/<YYYY>/<MM>/<DD>/<language>/<level>/story.json of that date,
\* language and level.
IdentifierRoundTrip ==
    \A dt \in IdDates :
    \A i \in 1..Len(SUPPORTED_LANGUAGES) :
    \A j \in 1..Len(AllLevels) :
        LET language == SUPPORTED_LANGUAGES[i]
            level == AllLevels[j]
            id == CustomId(dt, language, level)
        IN  (batches[1].requests = <<id>> /\ DrainOver)
            => /\ ValidSampleCustomId(id)
               /\ ValidCustomId(id)
               /\ BatchDate(id) = dt
               /\ At(split(id, "-"), 1) = toLowerCase(language)
               /\ At(split(id, "-"), 2) = toLowerCase(level)
               /\ FilePath(ResultDirPath(id)) = StoryPathOf(dt, language, level)
               /\ DOMAIN files = {StoryPathOf(dt, language, level)}

\* the drain has stored the story of 2025-11-04, Spanish, A1 at
\* stories/2025/11/04/spanish/a1/story.json
IdentifierRoundTripReached ==
    /\ DrainOver
    /\ batches[1].requests =
          <<CustomId([year |-> 2025, month |-> 10, date |-> 4], Spanish, A1)>>
    /\ DOMAIN files = {<<STORIES, <<"2","0","2","5">>, <<"1","1">>, <<"0","4">>,
                         <<"s","p","a","n","i","s","h">>, <<"a","1">>,
                         STORY_JSON>>}

\* the file the drain writes for the date, the language and the level
WrittenPath(dt, language, level) ==
    FilePath(ResultDirPath(CustomId(dt, language, level)))

\* C18: once the drain has written the story of today's date, a language
\* and a level, a GET with any letter-casing of that language and level
\* is answered from the path the drain wrote, with the story stored there;
\* a page that shows a story shows the one stored at the path it read; and
\* the first probe of a request has answered true exactly when the file
\* the drain writes for its date, English and A1 is in the Store.
CaseInsensitiveReadYourWrite ==
    /\ DrainOver
       => \A i \in 1..Len(SUPPORTED_LANGUAGES) : \A j \in 1..Len(AllLevels) :
             OfBatch(i, j)
             => \A language \in Casings(SUPPORTED_LANGUAGES[i]) :
                \A level \in Casings(AllLevels[j]) :
                   LET answer == StoryPage(files, language, level, today)
                   IN  /\ answer.path = WrittenPath(today, SUPPORTED_LANGUAGES[i],
                                                    AllLevels[j])
                       /\ answer.path \in DOMAIN files
                       /\ answer.view = "story"
                       /\ answer.content = GoodStory(1)
    /\ page.view = "story"
       => /\ page.path \in DOMAIN files
          /\ page.content = JSONParse(files[page.path])
    /\ tr[1].pc = "tomorrow"
       => (tr[1].todayExists
           <=> WrittenPath(tr[1].now, English, A1) \in DOMAIN files)

\* a reader was shown the story the drain wrote
CaseInsensitiveReadYourWriteReached ==
    /\ DrainOver
    /\ page.view = "story"
    /\ page.content = GoodStory(1)
    /\ page.path \in DOMAIN files

(***************************************************************************)
(* Properties of the themes.                                               *)
(***************************************************************************)
\* the tiers: A1 and A2, B1 and B2
Tier(level) == IF level \in {A1, A2} THEN "early" ELSE "intermediate"

\* C19: in the batches generateDailyStories builds, two requests for the
\* same date whose levels are of the same tier carry the same theme,
\* whatever their languages, in one batch or in two; so the theme is a
\* function of the date and the tier.
OneThemePerDateAndTier ==
    \A b \in 1..Len(batches) : \A c \in 1..Len(batches) :
        SubmittedDate(batches[b]) = SubmittedDate(batches[c])
        => \A m \in 1..Len(batches[b].prompts) :
           \A n \in 1..Len(batches[c].prompts) :
              Tier(batches[b].prompts[m].level) = Tier(batches[c].prompts[n].level)
              => batches[b].prompts[m].theme = batches[c].prompts[n].theme

\* a batch holds requests of both tiers and of several languages, each with
\* a theme, and the two tiers differ in theme
OneThemePerDateAndTierReached ==
    \E b \in 1..Len(batches) :
        /\ \E m, n \in 1..Len(batches[b].prompts) :
              /\ batches[b].prompts[m].language # batches[b].prompts[n].language
              /\ batches[b].prompts[m].level # batches[b].prompts[n].level
              /\ Tier(batches[b].prompts[m].level) = Tier(batches[b].prompts[n].level)
        /\ \E m, n \in 1..Len(batches[b].prompts) :
              batches[b].prompts[m].theme # batches[b].prompts[n].theme
        /\ \A m \in 1..Len(batches[b].prompts) : batches[b].prompts[m].theme # <<>>

\* the calendar day of an instant
CalendarDay(date) == <<date.year, date.month, date.date>>

\* C20: selectThemesForDate gives, at every hour of a day, the themes of
\* the seed year*10000 + month*100 + day (20251104 on 2025-11-04), the
\* same for both tiers at every hour and in every call: what a batch built
\* earlier for the day carries is what a call made now returns.
ThemeSelectionDeterministic ==
    /\ \A h \in Hours :
          LET date == [today EXCEPT !.hours = h]
          IN  /\ selectThemesForDate(date) = selectThemesForDate(today)
              /\ selectThemesForDate(date) =
                    ThemesOfSeed(today.year * 10000 + (today.month + 1) * 100
                                 + today.date)
    /\ CalendarDay(today) = <<2025, 10, 4>>
       => selectThemesForDate(today) = ThemesOfSeed(20251104)
    /\ \A b \in 1..Len(batches) :
          CalendarDay(SubmittedDate(batches[b])) = CalendarDay(today)
          => \A n \in 1..Len(batches[b].prompts) :
                batches[b].prompts[n].theme =
                    ThemeOfLevel(selectThemesForDate(today),
                                 batches[b].prompts[n].level)

\* late in the day the account holds two batches built for today
ThemeSelectionDeterministicReached ==
    /\ today.hours = 23
    /\ Len(batches) >= 2
    /\ \A b \in 1..2 :
          CalendarDay(SubmittedDate(batches[b])) = CalendarDay(today)

\* an element of the theme list of the tier, or the empty string
GuardedTheme(theme, level) ==
    \/ theme = <<>>
    \/ /\ Len(theme) = 2
       /\ theme[1] = Tier(level)
       /\ theme[2] \in 0..((IF Tier(level) = "early" THEN EarlyThemesLength
                              ELSE IntermediateThemesLength) - 1)

\* C21: whatever Math.sin returns and for an Invalid Date too, each theme
\* selectThemesForDate gives to a request is an element of the theme list
\* of the request's tier, at an index from 0 to length - 1, or the empty
\* string.
ThemeIndexGuarded ==
    \A b \in 1..Len(batches) : \A n \in 1..Len(batches[b].prompts) :
        GuardedTheme(batches[b].prompts[n].theme, batches[b].prompts[n].level)

\* seededRandom returned 1 for one tier, whose requests got the empty
\* string, and the other tier got the last theme of its list
ThemeIndexGuardedReached ==
    \E b \in 1..Len(batches) :
        /\ DateSeed(SubmittedDate(batches[b])) # NaN
        /\ \E n \in 1..Len(batches[b].prompts) :
              batches[b].prompts[n].theme = <<>>
        /\ \E n \in 1..Len(batches[b].prompts) :
              batches[b].prompts[n].theme = <<"early", EarlyThemesLength - 1>>

\* the counts the schema of a tool forces on the inputs it admits
ForcesCounts(tool, input) ==
    /\ Len(input.questions) = 3
    /\ \A i \in 1..3 : input.questions[i].options = 4
    /\ input.messages >= 10
    /\ tool.level = B2 => input.messages >= 12

\* the minimum count of messages does not go down from A1 to B2
MinMessagesNonDecreasing(tools) ==
    \A m, n \in 1..Len(tools) :
        (\E i, j \in 1..Len(AllLevels) :
            i <= j /\ AllLevels[i] = tools[m].level
                   /\ AllLevels[j] = tools[n].level)
        => tools[m].input_schema.messages.minItems
             <= tools[n].input_schema.messages.minItems

\* every tool call the schema of its request admits has exactly 3
\* questions of exactly 4 options and enough messages for its level
SchemaForcesCounts ==
    \A b \in 1..Len(batches) :
        /\ MinMessagesNonDecreasing(batches[b].tools)
        /\ \A r \in 1..Len(batches[b].results) :
              ForcesCounts(batches[b].tools[batches[b].results[r].request],
                           batches[b].results[r].input)

\* C22: the output schema sent to the provider forces exactly 3 questions,
\* exactly 4 options per question, an answer index that is one of the
\* integers 0, 1, 2, 3, and a minimum count of messages that does not go
\* down from A1 to B2 (at least 10, at least 12 for B2).
SchemaForcesShape ==
    /\ SchemaForcesCounts
    /\ \A b \in 1..Len(batches) : \A r \in 1..Len(batches[b].results) :
          \A i \in 1..Len(batches[b].results[r].input.questions) :
              LET twice == batches[b].results[r].input.questions[i].correctAnswer
              IN  twice % 2 = 0 /\ (twice \div 2) \in 0..3

\* C23: in every request of a batch, for every language L, the prompt and
\* the tool's schema name the same language for the questions: English
\* when the level is A1 or A2, L when the level is B1 or B2.
QuestionLanguagePolicy ==
    \A b \in 1..Len(batches) : \A n \in 1..Len(batches[b].requests) :
        LET prompt == batches[b].prompts[n]
            tool == batches[b].tools[n]
            expected == IF tool.level \in {A1, A2} THEN English
                        ELSE tool.language
        IN  /\ prompt.language = tool.language /\ prompt.level = tool.level
            /\ tool.level \in {A1, A2, B1, B2}
            /\ prompt.questionLanguage = expected
            /\ tool.questionLanguage = expected

\* a batch holds a Spanish A2 request whose prompt and tool ask for
\* questions in English and a Spanish B1 request whose prompt and tool
\* ask for them in Spanish
QuestionLanguagePolicyReached ==
    \E b \in 1..Len(batches) : \E m, n \in 1..Len(batches[b].requests) :
        /\ batches[b].tools[m].language = Spanish
        /\ batches[b].tools[m].level = A2
        /\ batches[b].prompts[m].questionLanguage = English
        /\ batches[b].tools[m].questionLanguage = English
        /\ batches[b].tools[n].language = Spanish
        /\ batches[b].tools[n].level = B1
        /\ batches[b].prompts[n].questionLanguage = Spanish
        /\ batches[b].tools[n].questionLanguage = Spanish

\* C24: cleaning is idempotent: for every response text x,
\* cleanJsonString(cleanJsonString(x)) equals cleanJsonString(x).
CleaningIdempotent ==
    tr[1].pc = "cleaned" =>
        cleanJsonString(tr[1].cleanedResponse) = tr[1].cleanedResponse

\* C25: in the revision with the isGeneratingStories flag at most one
\* call of generateDailyStories is in progress at any moment, whether the
\* calls were made for /generate-stories requests or by the cron job.
OneGenerationAtATime ==
    \A i, j \in 1..Len(tr.runs) :
        InProgress(tr.runs[i]) /\ InProgress(tr.runs[j]) => i = j

\* call i is in the polling loop for its batch
Polling(i) == i \in 1..Len(tr.runs) /\ tr.runs[i].pc = "poll"

\* the provider reports a status other than in_progress for the batch of
\* call i
LeftInProgress(i) ==
    /\ i \in 1..Len(tr.runs) /\ tr.runs[i].batch # 0
    /\ batches[tr.runs[i].batch].processing_status # "in_progress"

\* call i has returned or thrown after it submitted its batch
Completed(i) ==
    /\ i \in 1..Len(tr.runs) /\ tr.runs[i].batch # 0
    /\ ~InProgress(tr.runs[i])

LanguagesOf(batch) == {batch.prompts[n].language : n \in 1..Len(batch.prompts)}

LevelsOf(batch) == {batch.prompts[n].level : n \in 1..Len(batch.prompts)}

\* C27: a batch that generateDailyStories submits holds exactly one request
\* for each pair of a language and a level of its arguments (32 requests
\* for the 8 supported languages and the 4 levels), and the custom_ids of
\* its requests are pairwise distinct.
OneRequestPerPair ==
    \A b \in 1..Len(batches) :
        LET batch == batches[b]
        IN  /\ Len(batch.requests) = Len(batch.prompts)
            /\ \A language \in LanguagesOf(batch) : \A level \in LevelsOf(batch) :
                  Cardinality({n \in 1..Len(batch.requests) :
                                  /\ batch.prompts[n].language = language
                                  /\ batch.prompts[n].level = level}) = 1
            /\ \A m, n \in 1..Len(batch.requests) :
                  m # n => batch.requests[m] # batch.requests[n]
            /\ (LanguagesOf(batch) = {SUPPORTED_LANGUAGES[k] : k \in 1..8}
                 /\ LevelsOf(batch) = {A1, A2, B1, B2})
                => Len(batch.requests) = 32

\* a batch for the 8 supported languages and the 4 levels was submitted
OneRequestPerPairReached ==
    \E b \in 1..Len(batches) :
        /\ Cardinality(LanguagesOf(batches[b])) = 8
        /\ Cardinality(LevelsOf(batches[b])) = 4
        /\ Len(batches[b].requests) = 32

\* the probe file of the date under which path p lies
ProbeOf(p) ==
    FilePath(DirPath(p[2], p[3], p[4], toLowerCase(SUPPORTED_LANGUAGES[1]),
                     toLowerCase(EARLY_LEVELS[1])))

\* the probe file of date dt existed when the request of slot t arrived
ClosedAtArrival(t, dt) == SampleFilePath(dt) \in tr[t].startStore

\* a step of the request of slot t submits no batch for a date that was
\* closed when the request arrived and writes no file under such a date
ClosedDateStep(t) ==
    /\ Len(batches') > Len(batches)
       => ~ClosedAtArrival(t, SubmittedDate(batches'[Len(batches')]))
    /\ \A p \in DOMAIN files' :
          (p \notin DOMAIN files \/ files'[p] # files[p])
          => ProbeOf(p) \notin tr[t].startStore

\* no batch of a date that was closed when the request of slot t arrived
\* is in the lists of processed and of failed batches of the request
ClosedDateUnreported(t) ==
    /\ \A i \in 1..Len(tr[t].processedBatchIDs) :
          ~ClosedAtArrival(t, SubmittedDate(batches[tr[t].processedBatchIDs[i]]))
    /\ \A i \in 1..Len(tr[t].errorBatchIDs) :
          ~ClosedAtArrival(t, SubmittedDate(batches[tr[t].errorBatchIDs[i]]))

\* C28: the probe closes a date: a request that arrives when the probe
\* file (English, A1) of a date exists submits no batch for that date and
\* its drain writes no file under that date, whatever else of the date is
\* missing; an ended batch of that date is skipped and is in neither the
\* processed nor the failed list of the request.
ProbeClosesDate ==
    /\ [](ClosedDateUnreported(1))
    /\ [][ClosedDateStep(1)]_vars

\* processBatches has returned to a request that arrived with the probe
\* file of a date in the Store and another story of that date missing: it
\* has skipped an ended batch of the date and has it in neither list
ProbeClosesDateReached ==
    /\ tr[1].pc = "check"
    /\ \E b \in 1..Len(batches) :
          /\ batches[b].processing_status = "ended"
          /\ ClosedAtArrival(1, SubmittedDate(batches[b]))
          /\ tr[1].drain.batch = b /\ tr[1].drain.verdict = "stories_exist"
          /\ \A i \in 1..Len(tr[1].processedBatchIDs) : tr[1].processedBatchIDs[i] # b
          /\ \A i \in 1..Len(tr[1].errorBatchIDs) : tr[1].errorBatchIDs[i] # b
          /\ \E n \in 1..Len(batches[b].requests) :
                FilePath(ResultDirPath(batches[b].requests[n])) \notin DOMAIN files

\* the results of batch b in the order p
Reordered(b, p) == [i \in 1..Len(batches[b].results) |-> batches[b].results[p[i]]]

\* the provider gives every request of a batch its own custom_id
DistinctCustomIds(b) ==
    \A i, j \in 1..Len(batches[b].results) :
        batches[b].results[i].custom_id = batches[b].results[j].custom_id
        => i = j

\* the request has drained batch 1 and is about to look for a batch in
\* progress
DrainedOne == tr[1].pc = "check" /\ tr[1].drain.batch = 1

\* the Store and the lists of the drain are those of the results in order p
SameAsInOrder(p) ==
    LET other == DrainOf(<<>>, 1, Reordered(1, p))
    IN  /\ files = other.files
        /\ tr[1].processedBatchIDs = other.processedBatchIDs
        /\ tr[1].errorBatchIDs = other.errorBatchIDs

\* the drain agrees with DrainOf on the order the provider did return
DrainIsDrainOf ==
    DrainedOne => SameAsInOrder([i \in 1..Len(batches[1].results) |-> i])

\* C29: for a fixed set of outcomes of an ended batch, the Store and the
\* reported result after the drain are the same for every order in which
\* the provider returns those outcomes
OutcomeOrderIrrelevant ==
    (DrainedOne /\ DistinctCustomIds(1))
    => \A p \in Permutations(1..Len(batches[1].results)) : SameAsInOrder(p)

\* the same, for batches whose every custom_id passes the check of 416-424
OutcomeOrderIrrelevantWellFormed ==
    (/\ DrainedOne
     /\ DistinctCustomIds(1)
     /\ \A i \in 1..Len(batches[1].results) :
            ValidCustomId(batches[1].results[i].custom_id))
    => \A p \in Permutations(1..Len(batches[1].results)) : SameAsInOrder(p)

\* the step in which the check answers the first request of a process
\* while a batch is in_progress
AnswersAfterRestart(t) ==
    /\ tr[t].pc = "check"
    /\ tr'[t].pc \notin {"check", "idle"}
    /\ tr[t].firstOfProcess
    /\ InFlight # {}

\* that request submits nothing and reports a batch that is in_progress
RestartSafeStep(t) ==
    AnswersAfterRestart(t)
    => /\ batches' = batches
       /\ tr'[t].pc = "done"
       /\ tr'[t].status = 200
       /\ tr'[t].batchIds = <<>>
       /\ tr'[t].inProgressBatchId \in InFlight
       /\ \E i \in 1..Len(tr'[t].messages) :
             /\ tr'[t].messages[i].kind = "in_progress"
             /\ tr'[t].messages[i].n = tr'[t].inProgressBatchId

\* C30: the decision to submit depends on the provider's batch list and the
\* Store, not on process memory: when the server process has restarted while
\* a batch is in_progress, the next request submits nothing and reports the
\* identifier of a batch that is in_progress
RestartSafe == [][RestartSafeStep(1)]_vars

\* the first request of a process that found its memory empty has answered
\* with the id of a batch an earlier process submitted, still in_progress
RestartSafeReached ==
    /\ tr[1].pc = "done"
    /\ tr[1].firstOfProcess
    /\ tr[1].inProgressBatchId \in InFlight
    /\ tr[1].batchIds = <<>>
    /\ "in_progress" \in Kinds(tr[1].messages)

\* the elements of a list
Elements(list) == {list[i] : i \in 1..Len(list)}

\* the ids of the page the list call of 340 returns
PageIds == {ListPage(batches)[i].id : i \in 1..Len(ListPage(batches))}

\* processBatches has returned to request t: its three lists are the result
Returned(t) == tr[t].pc = "check"

\* C31: in every result processBatches returns, processedBatchIDs,
\* errorBatchIDs and inProgressBatchIDs are pairwise disjoint, hold no id
\* twice and only ids of the listed page; inProgressBatchIDs is the set of
\* the listed batches whose status is in_progress; the other two hold ended
\* batches only; and an ended batch that had no results, or whose date had
\* its Store entry, is in none of the three lists
ResultPartition ==
    Returned(1)
    => LET P == Elements(tr[1].processedBatchIDs)
           E == Elements(tr[1].errorBatchIDs)
           I == Elements(tr[1].inProgressBatchIDs)
       IN  /\ P \cap E = {} /\ P \cap I = {} /\ E \cap I = {}
           /\ Cardinality(P) = Len(tr[1].processedBatchIDs)
           /\ Cardinality(E) = Len(tr[1].errorBatchIDs)
           /\ Cardinality(I) = Len(tr[1].inProgressBatchIDs)
           /\ (P \cup E \cup I) \subseteq PageIds
           /\ I = {b \in PageIds : batches[b].processing_status = "in_progress"}
           /\ \A b \in P \cup E : batches[b].processing_status = "ended"
           /\ \A b \in tr[1].drain.skipped :
                 /\ b \notin P \cup E \cup I
                 /\ batches[b].processing_status = "ended"

\* a result in which one batch of the page is processed or failed and the
\* other was passed over
ResultPartitionReached ==
    /\ Returned(1)
    /\ tr[1].drain.skipped # {}
    /\ tr[1].processedBatchIDs \o tr[1].errorBatchIDs # <<>>

\* the ended batches of the listed page
PageEnded == {b \in PageIds : batches[b].processing_status = "ended"}

\* the step in which the results call of batch b, or the iteration over
\* its results, fails
ResultsFailStep(t, b) ==
    /\ tr[t].pc = "results"
    /\ tr[t].completedBatches[tr[t].k] = b
    /\ tr'[t].drain.batch = b
    /\ tr'[t].drain.verdict = "fetch_failed"

\* the failed batch is reported and nothing is written in the step; and no
\* step writes for a batch that is in errorBatchIDs
IsolatedStep(t) ==
    /\ \A b \in 1..Len(batches) :
          ResultsFailStep(t, b)
          => /\ b \in Elements(tr'[t].errorBatchIDs)
             /\ b \notin Elements(tr'[t].processedBatchIDs)
             /\ files' = files /\ dirs' = dirs
             /\ tr'[t].pc \in {"results", "check"}
    /\ (files' # files \/ dirs' # dirs)
       => tr[t].drain.batch \notin Elements(tr[t].errorBatchIDs)

\* when processBatches returns, every ended batch of the page was looked
\* at: it is processed, failed or passed over
AllEndedLookedAt ==
    Returned(1)
    => PageEnded = Elements(tr[1].processedBatchIDs)
                   \cup Elements(tr[1].errorBatchIDs)
                   \cup tr[1].drain.skipped

\* C32: when fetching or iterating the results of one ended batch fails,
\* that batch is reported in errorBatchIDs, nothing is written for it, and
\* every other ended batch of the listed page is still looked at in the
\* same processBatches call
PerBatchIsolation == [](AllEndedLookedAt) /\ [][IsolatedStep(1)]_vars

\* the results call of the newer batch failed and the older batch of the
\* page was drained after it, in the same call
PerBatchIsolationReached ==
    /\ Returned(1)
    /\ Len(batches) >= 2
    /\ tr[1].errorBatchIDs = <<Len(batches)>>
    /\ batches[Len(batches)].results # <<>>
    /\ ValidSampleCustomId(batches[Len(batches)].results[1].custom_id)
    /\ tr[1].processedBatchIDs = <<Len(batches) - 1>>
    /\ tr[1].drain.written # {}
    /\ files # <<>>

\* some batch for date dt has ended while the date has no Store entry
EndedUnstored(dt) ==
    /\ ~checkStoriesExistForDate(files, dt)
    /\ \E b \in 1..Len(batches) :
          /\ batches[b].processing_status = "ended"
          /\ BatchDate(batches[b].requests[1]) = dt

\* C33: no ended batch is lost to the listing limit: every submitted batch
\* that ends while its date has no Store entry is drained by some later
\* request, so that the date gets its Store entry
NoEndedBatchLost ==
    \A dt \in {StartDate, Tomorrow(StartDate)} :
        EndedUnstored(dt) ~> checkStoriesExistForDate(files, dt)

\* request t is inside processBatches
InDrain(t) ==
    tr[t].pc \in {"list", "results", "exists", "mkdir", "open", "write"}

\* processBatches has returned to request t, or the request has ended
DrainReturned(t) == tr[t].pc \notin {"idle"} /\ ~InDrain(t)

\* C34: draining the same ended batch twice, one drain after the other or
\* two drains interleaved at their awaits, leaves the Store as draining it
\* once does: whenever a drain is over and none is running, the files are
\* those of one drain of the batch
DrainIdempotent ==
    ((\E t \in Slots : DrainReturned(t)) /\ (\A t \in Slots : ~InDrain(t)))
    => files = DrainOf(<<>>, 1, batches[1].results).files

\* both requests have drained the batch, each wrote a story of it, and
\* both drains are over
DrainIdempotentReached ==
    /\ \A t \in Slots :
          /\ tr[t].pc = "check"
          /\ tr[t].drain.batch = 1
          /\ tr[t].drain.written # {}
    /\ files # <<>>

\* C35: isGeneratingStories is true whenever a call of generateDailyStories
\* made by the /generate-stories route has not settled; when one of two
\* calls made together fails, the flag stays up until the other settles
FlagAccurate ==
    \A i \in 1..Len(tr.runs) :
        (tr.runs[i].group # 0 /\ InProgress(tr.runs[i]))
        => isGeneratingStories

\* the step in which a request arrives while the flag is down
ArrivesWithFlagDown == ~isGeneratingStories /\ invocations' = invocations + 1

\* such a request is not refused: its handler goes on to the checks
AcceptedStep ==
    ArrivesWithFlagDown
    => /\ \E t \in Slots : /\ tr.handlers[t].pc = "idle"
                            /\ tr'.handlers[t].pc = "today"
       /\ page' = page

\* C36: every time isGeneratingStories is set to true it is eventually
\* reset to false, whether the generation succeeds or fails, provided the
\* provider comes to report a status other than in_progress for every
\* submitted batch; and a request that arrives with the flag down is
\* accepted
NoPermanentLockout ==
    /\ isGeneratingStories ~> ~isGeneratingStories
    /\ [][AcceptedStep]_vars

\* the flag went up, a call of the route failed and the flag came down,
\* and a request that arrived afterwards was accepted
NoPermanentLockoutReached ==
    /\ ~isGeneratingStories
    /\ \E i \in 1..Len(tr.runs) :
          tr.runs[i].group # 0 /\ tr.runs[i].pc = "thrown"
    /\ \A i \in 1..Len(tr.runs) : ~InProgress(tr.runs[i])
    /\ \E t \in Slots : /\ tr.handlers[t].pc = "today"
                        /\ tr.handlers[t].runsAtArrival = Len(tr.runs)

\* call i leaves its polling loop in the step
LeavesLoop(i) ==
    /\ i \in 1..Len(tr.runs)
    /\ tr.runs[i].pc = "poll"
    /\ tr'.runs[i].pc # "poll"

\* the status the retrieve of call i answers with in the step
Observed(i) == batches[tr.runs[i].batch].processing_status

\* a step that writes is the step of a call that saw its batch ended, and
\* a call that sees its batch canceling throws and writes nothing
WritesAfterCompletionStep ==
    /\ (files' # files \/ dirs' # dirs)
       => \E i \in 1..Len(tr.runs) :
             /\ LeavesLoop(i)
             /\ Observed(i) = "ended"
             /\ tr'.runs[i].pc = "returned"
    /\ \A i \in 1..Len(tr.runs) :
          LeavesLoop(i)
          => /\ Observed(i) # "in_progress"
             /\ Observed(i) = "canceling"
                => /\ tr'.runs[i].pc = "thrown"
                   /\ files' = files /\ dirs' = dirs

\* C37: the waiting generateDailyStories of util.ts writes nothing before
\* it has seen a status other than in_progress for its batch; when the
\* status it sees is canceling the call throws, without reading the
\* results and without writing
WriteAfterCompletion == [][WritesAfterCompletionStep]_vars

\* one call threw on a canceling batch, whose date has no file, and
\* another returned after writing the stories of its ended batch
WriteAfterCompletionReached ==
    /\ \E i \in 1..Len(tr.runs) :
          /\ tr.runs[i].pc = "thrown"
          /\ tr.runs[i].batch # 0
          /\ batches[tr.runs[i].batch].processing_status = "canceling"
          /\ ~checkStoriesExistForDate(files, tr.runs[i].date)
    /\ \E j \in 1..Len(tr.runs) :
          /\ tr.runs[j].pc = "returned"
          /\ checkStoriesExistForDate(files, tr.runs[j].date)

\* the integer handed to seededRandom for a tier of a date: seed at 279,
\* seed + 1 at 282
SubSeed(date, tier) ==
    IF tier = "early" THEN DateSeed(date) ELSE DateSeed(date) + 1

\* C38: for any two different pairs of a calendar date and a tier, the
\* sub-seeds handed to the pseudo-random function are different: here, for
\* the dates of the batches on the account
SubSeedsDistinct ==
    \A b, c \in 1..Len(batches) :
        \A s, t \in {"early", "intermediate"} :
            <<CalendarDay(SubmittedDate(batches[b])), s>>
                # <<CalendarDay(SubmittedDate(batches[c])), t>>
            => SubSeed(SubmittedDate(batches[b]), s)
                   # SubSeed(SubmittedDate(batches[c]), t)

\* the same for one date, and for one tier
SubSeedsDistinctPerDateAndPerTier ==
    \A b, c \in 1..Len(batches) :
        LET d == SubmittedDate(batches[b])
            e == SubmittedDate(batches[c])
        IN  /\ SubSeed(d, "early") # SubSeed(d, "intermediate")
            /\ CalendarDay(d) # CalendarDay(e)
               => /\ SubSeed(d, "early") # SubSeed(e, "early")
                  /\ SubSeed(d, "intermediate") # SubSeed(e, "intermediate")

============================================================================
